---- MODULE Spec2Model ----
(***************************************************************************)
(* Model of the AgentForge skill generation engine (AgentForgeEnhanced),   *)
(* its validation passes and the CLI validators.                           *)
(*                                                                         *)
(* Text representation.  A text is a sequence of lines (the text split at  *)
(* "\n"), a line is a sequence of chunks, and a chunk is a string whose    *)
(* substring properties are given by the tables ChunkNeedles and           *)
(* ChunkStartsWithDashes.  The empty string is the text << <<>> >> (one    *)
(* empty line), exactly as ''.split('\n') is [''].                         *)
(***************************************************************************)
EXTENDS Integers, Sequences, FiniteSets, TLC

VARIABLES
  templates,      \* this.templates: framework -> template name
  outputDir,      \* whether config.outputDir is set
  pc,             \* position of the generateSkill call
  locals,         \* the locals of generateSkill; a local is <<>> until assigned
                  \* and <<value>> afterwards
  tasks,          \* the promises of the two Promise.all calls
  providerCalls,  \* calls of openai.chat.completions.create in this call
  prompt,         \* the prompt sent to the provider, <<>> before
  saved,          \* whether saveSkillToDirectory wrote the skill
  returned,       \* the value the call returned, <<record>>
  error,          \* message of the Error raised in the call, "" when none
  probe,          \* a pure function applied to inputs drawn at Init:
                  \* [fn, in, out], out is <<>> until the function is applied
  isGenerating,   \* AgentForgeWebApp: the useState values of the component
  generationStep,
  skillDescription,
  selectedFramework,
  features,
  generatedSkill, \* <<>> for null, <<record>> afterwards
  solanaEnabled,
  showDemo,
  demoTimers,     \* pending setTimeout callbacks of startDemo
  runs,           \* the startGeneration calls in progress: the loop index i
                  \* of each, waiting for its step timer
  handlerPc,      \* generate-skill.ts: position of the handler call
  handlerReq,     \* its req: [method, body]
  handlerRes,     \* the responses sent through res, in order
  createCalls,    \* the calls of anthropic.messages.create, in order
  completion      \* what the provider call settled with, <<>> before

engineVars ==
  << templates, outputDir, pc, locals, tasks, providerCalls, prompt, saved,
     returned, error >>

uiVars ==
  << isGenerating, generationStep, skillDescription, selectedFramework, features,
     generatedSkill, solanaEnabled, showDemo, demoTimers, runs >>

handlerVars == << handlerPc, handlerReq, handlerRes, createCalls, completion >>

webVars == << uiVars, handlerVars >>

vars == << engineVars, probe, webVars >>

\* ------------------------------------------------------------------ bounds
MaxDescLen == 1
MaxDocLines == 3
MaxMetadataLines == 4
MaxValidationLines == 2

\* ------------------------------------------------------- generic helpers
SeqsUpTo(S, n) == UNION {[1..k -> S] : k \in 0..n}

Range(s) == {s[i] : i \in DOMAIN s}

Max(a, b) == IF a >= b THEN a ELSE b

\* The value JavaScript calls undefined, for an optional list field.
NoList == <<"undefined">>

\* The value JavaScript calls undefined, for an optional string field.
Undefined == "undefined"

\* ------------------------------------------------------------ text tables
Whitespace == {" ", "\t", "\n"}

\* String.toLowerCase() on one character of the description alphabet.
LowerOf(c) ==
  CASE c = "A" -> "a"
    [] c = "B" -> "b"
    [] c = "W" -> "w"
    [] OTHER -> c

LowerLetters ==
  {"a", "b", "c", "d", "e", "f", "g", "h", "i", "j", "k", "l", "m",
   "n", "o", "p", "q", "r", "s", "t", "u", "v", "w", "x", "y", "z"}

Digits == {"0", "1", "2", "3", "4", "5", "6", "7", "8", "9"}

\* Needles (substrings or regular expressions of the source) that occur in a
\* chunk.  A needle written re:... is the regular expression of the source
\* (re:eval( is eval, optional whitespace, an opening parenthesis); the others
\* are the literal arguments of String.includes.  The chunk <fence> is a line
\* of three backquotes.
ChunkNeedles(c) ==
  CASE c = "---" -> {"---"}
    [] c = "----" -> {"---"}
    [] c = "# Title" -> {"# "}
    [] c = "## Usage" -> {"##", "# ", "## Usage"}
    [] c = "## Example" -> {"##", "# ", "## Example"}
    [] c = "## Installation" -> {"##", "# ", "## Installation"}
    [] c = "## Troubleshooting" -> {"##", "# ", "## Troubleshooting"}
    [] c = "## FAQ" -> {"##", "# ", "## FAQ"}
    [] c = "## Notes" -> {"##", "# "}
    [] c = "<fence>" -> {"<fence>"}
    [] c = "eval(x)" -> {"re:eval(", "eval("}
    [] c = "eval (x)" -> {"re:eval("}
    [] c = "exec(cmd)" -> {"re:exec(", "exec("}
    [] c = "el.innerHTML = s" -> {"re:innerHTML="}
    [] c = "process.env.KEY" -> {"re:process.env"}
    [] c = "process.env.retry" -> {"re:process.env", "try"}
    [] c = "try {" -> {"try"}
    [] c = "} catch (e) {" -> {"catch"}
    [] c = "setInterval(f, 1)" -> {"setInterval"}
    [] c = "clearInterval(t)" -> {"clearInterval"}
    [] c = "setTimeout(f, 1)" -> {"setTimeout"}
    [] c = "setTimeout(f, 1); setTimeout(g, 2)" -> {"setTimeout"}
    [] c = "with error handling" -> {"error handling"}
    [] OTHER -> {}

\* Number of occurrences of the needle in the chunk.
ChunkCount(c, needle) ==
  IF needle \notin ChunkNeedles(c) THEN 0
  ELSE IF c = "setTimeout(f, 1); setTimeout(g, 2)" /\ needle = "setTimeout" THEN 2
  ELSE 1

\* String.startsWith('---') on a chunk.
ChunkStartsWithDashes(c) == c \in {"---", "----"}

\* Header fields whose label pattern `<field>:` (case-insensitive) occurs in
\* the chunk.
ChunkLabels(c) ==
  CASE c = "name:" -> {"name"}
    [] c = "Name:" -> {"name"}
    [] c = "display_name:" -> {"name"}
    [] c = "description:" -> {"description"}
    [] c = "version:" -> {"version"}
    [] OTHER -> {}

Quotes == {"\"", "'"}

\* -------------------------------------------------- String operations
RECURSIVE SumCounts(_, _)
SumCounts(line, needle) ==
  IF line = <<>> THEN 0
  ELSE ChunkCount(Head(line), needle) + SumCounts(Tail(line), needle)

RECURSIVE Occurrences(_, _)
\* text.split(needle).length - 1
Occurrences(text, needle) ==
  IF text = <<>> THEN 0
  ELSE SumCounts(Head(text), needle) + Occurrences(Tail(text), needle)

\* String.includes(needle) and RegExp.test(text)
Includes(text, needle) ==
  \E i \in DOMAIN text : \E j \in DOMAIN text[i] : needle \in ChunkNeedles(text[i][j])

\* String.startsWith('---')
StartsWithDashes(text) ==
  /\ text # <<>>
  /\ text[1] # <<>>
  /\ ChunkStartsWithDashes(text[1][1])

\* The empty string.
EmptyText == << <<>> >>

\* a + b on strings: the last line of a and the first line of b are one line.
Concat(a, b) ==
  IF a = <<>> THEN b
  ELSE IF b = <<>> THEN a
  ELSE SubSeq(a, 1, Len(a) - 1) \o <<a[Len(a)] \o b[1]>> \o Tail(b)

RECURSIVE JoinNewline(_)
\* Array.join('\n') of an array of strings
JoinNewline(texts) ==
  IF texts = <<>> THEN EmptyText
  ELSE IF Len(texts) = 1 THEN texts[1]
  ELSE texts[1] \o JoinNewline(Tail(texts))

RECURSIVE TrimLeft(_)
TrimLeft(s) ==
  IF s # <<>> /\ Head(s) \in Whitespace THEN TrimLeft(Tail(s)) ELSE s

RECURSIVE TrimRight(_)
TrimRight(s) ==
  IF s # <<>> /\ s[Len(s)] \in Whitespace THEN TrimRight(SubSeq(s, 1, Len(s) - 1)) ELSE s

\* String.trim()
Trim(s) == TrimRight(TrimLeft(s))

RECURSIVE MaxLineLen(_)
MaxLineLen(text) ==
  IF text = <<>> THEN 0 ELSE Max(Len(Head(text)), MaxLineLen(Tail(text)))

\* ------------------------------------------------- generateSkillName
SlugMaxLen == 50

ToLowerCase(s) == [i \in DOMAIN s |-> LowerOf(s[i])]

\* .replace(/[^a-z0-9\s]/g, '')
StripNonSlug(s) ==
  SelectSeq(s, LAMBDA c : c \in LowerLetters \cup Digits \cup Whitespace)

RECURSIVE HyphenateWhitespace(_)
\* .replace(/\s+/g, '-')
HyphenateWhitespace(s) ==
  IF s = <<>> THEN <<>>
  ELSE IF Head(s) \in Whitespace
       THEN <<"-">> \o HyphenateWhitespace(TrimLeft(s))
       ELSE <<Head(s)>> \o HyphenateWhitespace(Tail(s))

\* .substring(0, 50)
Substring0(s, n) == SubSeq(s, 1, IF Len(s) < n THEN Len(s) ELSE n)

\* generateSkillName without .substring(0, 50).
generateSkillNameNoTruncate(description) ==
  HyphenateWhitespace(StripNonSlug(ToLowerCase(description)))

generateSkillName(description) ==
  Substring0(HyphenateWhitespace(StripNonSlug(ToLowerCase(description))), SlugMaxLen)

\* AgentForgeCLI.generateSkillName(description)
cliGenerateSkillName(description) ==
  Substring0(HyphenateWhitespace(StripNonSlug(ToLowerCase(description))), SlugMaxLen)

\* ------------------------------------------------------ validateRequest
SupportedFrameworks == {"openclaw", "langchain", "autogen"}

DescriptionMissing(request) == Trim(request.description) = <<>>

\* validateRequest with `!request.description` in place of
\* `!request.description?.trim()`.
validateRequestNoTrim(request) ==
  IF request.description = <<>> THEN "Skill description is required"
  ELSE IF request.framework \notin SupportedFrameworks THEN "Unsupported framework"
  ELSE "ok"

\* validateRequest without the framework check.
validateRequestNoFramework(request) ==
  IF DescriptionMissing(request) THEN "Skill description is required" ELSE "ok"

\* "ok", or the message of the Error that validateRequest throws.
validateRequest(request) ==
  IF DescriptionMissing(request) THEN "Skill description is required"
  ELSE IF request.framework \notin SupportedFrameworks THEN "Unsupported framework"
  ELSE "ok"

\* ------------------------------------------------- buildEnhancedPrompt
\* request.complexity || 'intermediate'
ComplexityOrDefault(request) ==
  IF request.complexity = Undefined THEN "intermediate" ELSE request.complexity

\* complexityGuidelines[key]; a key that is not in the object literal gives
\* undefined, which the template literal renders as the text "undefined".
complexityGuidelines(key) ==
  CASE key = "simple" -> "Focus on single responsibility, minimal dependencies, easy to understand"
    [] key = "intermediate" -> "Include error handling, configuration options, moderate complexity"
    [] key = "advanced" -> "Full feature set, comprehensive error handling, extensible architecture"
    [] OTHER -> Undefined

frameworkSpecifics(key) ==
  CASE key = "openclaw" -> "Use OpenClaw conventions, leverage available tools, integrate with OpenClaw ecosystem"
    [] key = "langchain" -> "Follow LangChain patterns, use chains and agents appropriately"
    [] key = "autogen" -> "Implement multi-agent conversation patterns, use AutoGen framework"
    [] OTHER -> Undefined

\* request.integrations?.includes(tag)
IntegrationsInclude(request, tag) ==
  /\ request.integrations # NoList
  /\ tag \in Range(request.integrations)

\* request.features.join(', ') raises a TypeError when features is undefined.
PromptThrows(request) == request.features = NoList

buildEnhancedPrompt(request, template) ==
  [ framework |-> request.framework,
    description |-> request.description,
    features |-> request.features,
    complexity |-> ComplexityOrDefault(request),
    integrations |-> IF request.integrations = NoList \/ request.integrations = <<>>
                     THEN <<"none">> ELSE request.integrations,
    guideline |-> complexityGuidelines(ComplexityOrDefault(request)),
    specifics |-> frameworkSpecifics(request.framework),
    solanaRequirements |-> IntegrationsInclude(request, "solana")
                             \/ IntegrationsInclude(request, "jupiter"),
    template |-> template ]

\* ------------------------------------------------- postProcessSkillMd
DashLine == <<"---">>

\* lines.findIndex((line, i) => i > 0 && line === '---'), as a 1-based index;
\* 0 when findIndex gives -1.
FrontmatterEndIndex(lines) ==
  IF \E k \in 2..Len(lines) : lines[k] = DashLine
  THEN CHOOSE k \in 2..Len(lines) :
         /\ lines[k] = DashLine
         /\ \A m \in 2..(k - 1) : lines[m] # DashLine
  ELSE 0

\* postProcessSkillMd without the startsWith check: nothing is prepended.
EnsureFrontmatterNever(content) == content

EnsureFrontmatter(content) ==
  IF StartsWithDashes(content) THEN content ELSE <<DashLine>> \o content

\* request.features.map(...) raises a TypeError when features is undefined.
PostProcessThrows(content, request) ==
  /\ FrontmatterEndIndex(EnsureFrontmatter(content)) > 0
  /\ request.features = NoList

postProcessSkillMd(content, request, now) ==
  LET lines == EnsureFrontmatter(content)
      k == FrontmatterEndIndex(lines)
  IN  IF k > 0
      THEN SubSeq(lines, 1, k - 1)
             \o << <<"generated_by: AgentForge">>,
                   <<"generation_date:", now>>,
                   <<"complexity:", ComplexityOrDefault(request)>>,
                   <<"features:">> \o request.features >>
             \o SubSeq(lines, k, Len(lines))
      ELSE lines

\* ------------------------------------------------ generateSolanaConfig
SolanaTriggers == {"jupiter", "pyth", "metaplex"}

\* WantsSolanaConfig with the tags that buildEnhancedPrompt tests.
WantsSolanaConfigPromptTags(request) ==
  /\ request.integrations # NoList
  /\ Range(request.integrations) \cap {"solana", "jupiter"} # {}

\* request.integrations?.some(i => ['jupiter','pyth','metaplex'].includes(i))
WantsSolanaConfig(request) ==
  /\ request.integrations # NoList
  /\ Range(request.integrations) \cap SolanaTriggers # {}

generateSolanaConfig(request) ==
  [ network |-> "devnet",
    programs |->
      (IF IntegrationsInclude(request, "jupiter")
       THEN << [name |-> "Jupiter V6",
                address |-> "JUP6LkbZbjS1jKKwapdHNy74zcZ3tLUZoi5QNyVTaV4"] >>
       ELSE <<>>)
      \o
      (IF IntegrationsInclude(request, "pyth")
       THEN << [name |-> "Pyth Oracle",
                address |-> "FsJ3A3u2vn5cTVofAjvy6y5kwABJAqYWpe4975bi2epH"] >>
       ELSE <<>>),
    tokens |-> <<>> ]

\* ----------------------------------------------- parseEnhancedMetadata
LineStartsWithDashes(line) == line # <<>> /\ ChunkStartsWithDashes(line[1])

\* skillMd.match(/^---\n([\s\S]*?)\n---/): the index of the line at which the
\* lazy match ends, 0 when there is no match.
FrontmatterMatchEnd(skillMd) ==
  IF /\ Len(skillMd) >= 3
     /\ skillMd[1] = DashLine
     /\ \E j \in 3..Len(skillMd) : LineStartsWithDashes(skillMd[j])
  THEN CHOOSE j \in 3..Len(skillMd) :
         /\ LineStartsWithDashes(skillMd[j])
         /\ \A m \in 3..(j - 1) : ~LineStartsWithDashes(skillMd[m])
  ELSE 0

\* frontmatterMatch[1]
Frontmatter(skillMd) == SubSeq(skillMd, 2, FrontmatterMatchEnd(skillMd) - 1)

RECURSIVE TakeUntilQuote(_)
\* ([^"'\n]+) inside one line
TakeUntilQuote(chunks) ==
  IF chunks = <<>> \/ Head(chunks) \in Quotes THEN <<>>
  ELSE <<Head(chunks)>> \o TakeUntilQuote(Tail(chunks))

\* ["']?([^"'\n]+) applied to what follows the whitespace run
CaptureFrom(chunks) ==
  IF chunks # <<>> /\ Head(chunks) \in Quotes
  THEN TakeUntilQuote(Tail(chunks))
  ELSE TakeUntilQuote(chunks)

\* The first non-empty line after line i, <<>> when there is none: \s* runs
\* over line ends.
NextNonEmptyLine(frontmatter, i) ==
  IF \E m \in (i + 1)..Len(frontmatter) : frontmatter[m] # <<>>
  THEN frontmatter[CHOOSE m \in (i + 1)..Len(frontmatter) :
         /\ frontmatter[m] # <<>>
         /\ \A n \in (i + 1)..(m - 1) : frontmatter[n] = <<>>]
  ELSE <<>>

\* The match attempt of the field's regular expression at the label chunk j of
\* line i: ok is FALSE when the expression does not match there.
MatchAt(frontmatter, i, j) ==
  LET rest == SubSeq(frontmatter[i], j + 1, Len(frontmatter[i]))
  IN  IF rest # <<>>
      THEN \* a space separates label and rest; an empty capture backtracks
           \* to capture that space
           [ok |-> TRUE, val |-> CaptureFrom(rest)]
      ELSE LET cap == CaptureFrom(NextNonEmptyLine(frontmatter, i))
           IN  [ok |-> cap # <<>>, val |-> cap]

LabelPositions(frontmatter, field) ==
  {p \in {<<i, j>> : i \in DOMAIN frontmatter, j \in 1..MaxLineLen(frontmatter)} :
     /\ p[2] <= Len(frontmatter[p[1]])
     /\ field \in ChunkLabels(frontmatter[p[1]][p[2]])
     /\ MatchAt(frontmatter, p[1], p[2]).ok}

Before(p, q) == p[1] < q[1] \/ (p[1] = q[1] /\ p[2] <= q[2])

\* parseField without `|| defaultValue`.
parseFieldNoDefault(frontmatter, field, defaultValue) ==
  LET ps == LabelPositions(frontmatter, field)
  IN  IF ps = {} THEN <<>>
      ELSE LET p == CHOOSE q \in ps : \A r \in ps : Before(q, r)
           IN  MatchAt(frontmatter, p[1], p[2]).val

\* frontmatter.match(regex)?.[1]?.trim() || defaultValue
parseField(frontmatter, field, defaultValue) ==
  LET ps == LabelPositions(frontmatter, field)
  IN  IF ps = {} THEN defaultValue
      ELSE LET p == CHOOSE q \in ps : \A r \in ps : Before(q, r)
               v == MatchAt(frontmatter, p[1], p[2]).val
           IN  IF v = <<>> THEN defaultValue ELSE v

DefaultVersion == <<"1.0.0">>

Tags(request) == <<"generated", "agentforge">> \o request.features

Summary(request) ==
  [ generated |-> TRUE,
    quality_score |-> 0,
    complexity |-> ComplexityOrDefault(request),
    features |-> request.features ]

\* The metadata built in the try block.
ParsedMetadata(skillMd, request) ==
  LET fm == Frontmatter(skillMd)
      n == parseField(fm, "name", <<>>)
      d == parseField(fm, "description", <<>>)
  IN  [ name |-> IF n = <<>> THEN generateSkillName(request.description) ELSE n,
        description |-> IF d = <<>> THEN request.description ELSE d,
        version |-> parseField(fm, "version", DefaultVersion),
        author |-> "AgentForge",
        tags |-> Tags(request),
        agentforge |-> Summary(request) ]

\* The catch block with tags that leave the request's features out.
FallbackMetadataBareTags(request) ==
  [ name |-> generateSkillName(request.description),
    description |-> request.description,
    version |-> DefaultVersion,
    author |-> "AgentForge",
    tags |-> <<"generated", "agentforge">>,
    agentforge |-> Summary(request) ]

\* The metadata built in the catch block.
FallbackMetadata(request) ==
  [ name |-> generateSkillName(request.description),
    description |-> request.description,
    version |-> DefaultVersion,
    author |-> "AgentForge",
    tags |-> Tags(request),
    agentforge |-> Summary(request) ]

\* Whether the try block of parseEnhancedMetadata throws.
ExtractionFails(skillMd, request) ==
  FrontmatterMatchEnd(skillMd) = 0 \/ request.features = NoList

parseEnhancedMetadata(skillMd, request) ==
  IF ExtractionFails(skillMd, request)
  THEN FallbackMetadata(request)
  ELSE ParsedMetadata(skillMd, request)

\* [...request.features] in the catch block raises a TypeError when features
\* is undefined.
FallbackThrows(request) == request.features = NoList

\* parseEnhancedMetadata without its catch block.
ParseMetadataRaisesNoCatch(skillMd, request) == ExtractionFails(skillMd, request)

\* Whether parseEnhancedMetadata raises to its caller: the try block throws
\* and the catch block throws again.
ParseMetadataRaises(skillMd, request) ==
  ExtractionFails(skillMd, request) /\ FallbackThrows(request)

\* ------------------------------------------------------ validation engine
When(cond, msg) == IF cond THEN <<msg>> ELSE <<>>

FileContents(codeFiles) == [i \in DOMAIN codeFiles |-> codeFiles[i].content]

\* skillMd + codeFiles.map(f => f.content).join('\n')
AllContent(skillMd, codeFiles) == Concat(skillMd, JoinNewline(FileContents(codeFiles)))

EvalDeduction == 30
ExecDeduction == 25
InnerHtmlDeduction == 15
EnvDeduction == 5
NoHandlingDeduction == 10

\* validateSecurity with `||` in place of `&&` in the error-handling check.
validateSecurityEitherMissing(skillMd, codeFiles) ==
  LET allContent == AllContent(skillMd, codeFiles)
      hasEval == Includes(allContent, "re:eval(")
      hasExec == Includes(allContent, "re:exec(")
      hasInner == Includes(allContent, "re:innerHTML=")
      hasEnv == Includes(allContent, "re:process.env")
      noHandling == ~Includes(allContent, "try") \/ ~Includes(allContent, "catch")
  IN  [ critical |->
          When(hasEval, "eval() usage detected - security risk")
          \o When(hasExec, "exec() usage detected - potential command injection")
          \o When(hasInner, "innerHTML usage - potential XSS risk")
          \o When(hasEnv, "Environment variable usage without validation"),
        warnings |-> When(noHandling, "No error handling detected"),
        scoreDeduction |->
          (IF hasEval THEN EvalDeduction ELSE 0)
          + (IF hasExec THEN ExecDeduction ELSE 0)
          + (IF hasInner THEN InnerHtmlDeduction ELSE 0)
          + (IF hasEnv THEN EnvDeduction ELSE 0)
          + (IF noHandling THEN NoHandlingDeduction ELSE 0) ]

validateSecurity(skillMd, codeFiles) ==
  LET allContent == AllContent(skillMd, codeFiles)
      hasEval == Includes(allContent, "re:eval(")
      hasExec == Includes(allContent, "re:exec(")
      hasInner == Includes(allContent, "re:innerHTML=")
      hasEnv == Includes(allContent, "re:process.env")
      noHandling == ~Includes(allContent, "try") /\ ~Includes(allContent, "catch")
  IN  [ critical |->
          When(hasEval, "eval() usage detected - security risk")
          \o When(hasExec, "exec() usage detected - potential command injection")
          \o When(hasInner, "innerHTML usage - potential XSS risk")
          \o When(hasEnv, "Environment variable usage without validation"),
        warnings |-> When(noHandling, "No error handling detected"),
        scoreDeduction |->
          (IF hasEval THEN EvalDeduction ELSE 0)
          + (IF hasExec THEN ExecDeduction ELSE 0)
          + (IF hasInner THEN InnerHtmlDeduction ELSE 0)
          + (IF hasEnv THEN EnvDeduction ELSE 0)
          + (IF noHandling THEN NoHandlingDeduction ELSE 0) ]

IntervalDeduction == 10
TimeoutSplitThreshold == 5

\* validatePerformance with `>=` in place of `>` in the setTimeout check.
validatePerformanceOffByOne(skillMd, codeFiles) ==
  LET allContent == AllContent(skillMd, codeFiles)
      leak == Includes(allContent, "setInterval") /\ ~Includes(allContent, "clearInterval")
      many == /\ Includes(allContent, "setTimeout")
              /\ Occurrences(allContent, "setTimeout") + 1 >= TimeoutSplitThreshold
  IN  [ warnings |-> When(leak, "setInterval without clearInterval - potential memory leak"),
        suggestions |->
          When(many, "Consider using async/await instead of multiple setTimeout calls"),
        scoreDeduction |-> IF leak THEN IntervalDeduction ELSE 0 ]

validatePerformance(skillMd, codeFiles) ==
  LET allContent == AllContent(skillMd, codeFiles)
      leak == Includes(allContent, "setInterval") /\ ~Includes(allContent, "clearInterval")
      many == /\ Includes(allContent, "setTimeout")
              /\ Occurrences(allContent, "setTimeout") + 1 > TimeoutSplitThreshold
  IN  [ warnings |-> When(leak, "setInterval without clearInterval - potential memory leak"),
        suggestions |->
          When(many, "Consider using async/await instead of multiple setTimeout calls"),
        scoreDeduction |-> IF leak THEN IntervalDeduction ELSE 0 ]

UsageBonus == 5
InstallationBonus == 3
TroubleshootingBonus == 5
CodeBlockBonus == 3

\* validateDocumentation with `&&` in place of `||` in the usage check.
validateDocumentationBothSections(skillMd) ==
  [ bonus |->
      (IF Includes(skillMd, "## Usage") /\ Includes(skillMd, "## Example")
       THEN UsageBonus ELSE 0)
      + (IF Includes(skillMd, "## Installation") THEN InstallationBonus ELSE 0)
      + (IF Includes(skillMd, "## Troubleshooting") \/ Includes(skillMd, "## FAQ")
         THEN TroubleshootingBonus ELSE 0)
      + (IF Includes(skillMd, "<fence>") THEN CodeBlockBonus ELSE 0),
    suggestions |->
      When(~Includes(skillMd, "##"),
           "Consider adding section headers for better organization") ]

validateDocumentation(skillMd) ==
  [ bonus |->
      (IF Includes(skillMd, "## Usage") \/ Includes(skillMd, "## Example")
       THEN UsageBonus ELSE 0)
      + (IF Includes(skillMd, "## Installation") THEN InstallationBonus ELSE 0)
      + (IF Includes(skillMd, "## Troubleshooting") \/ Includes(skillMd, "## FAQ")
         THEN TroubleshootingBonus ELSE 0)
      + (IF Includes(skillMd, "<fence>") THEN CodeBlockBonus ELSE 0),
    suggestions |->
      When(~Includes(skillMd, "##"),
           "Consider adding section headers for better organization") ]

BaseScore == 100
FrontmatterDeduction == 20
NameDeduction == 15

\* Math.max(0, score)
ClampScore(score) == Max(0, score)

\* isValid left at the value it was initialised with.
IsValidOfStale(errors) == TRUE

\* errors.length === 0
IsValidOf(errors) == Len(errors) = 0

\* enhancedValidation with the performance pass run before the security pass.
enhancedValidationPerformanceFirst(skillMd, metadata, codeFiles) ==
  LET noFrontmatter == ~Includes(skillMd, "---")
      noName == metadata.name = <<>>
      securityIssues == validateSecurity(skillMd, codeFiles)
      performanceIssues == validatePerformance(skillMd, codeFiles)
      docScore == validateDocumentation(skillMd)
      errors == When(noFrontmatter, "Missing YAML frontmatter")
                \o When(noName, "Missing skill name")
                \o securityIssues.critical
      qualityScore == BaseScore
                      - (IF noFrontmatter THEN FrontmatterDeduction ELSE 0)
                      - (IF noName THEN NameDeduction ELSE 0)
                      + docScore.bonus
  IN  [ isValid |-> IsValidOf(errors),
        errors |-> errors,
        warnings |-> performanceIssues.warnings \o securityIssues.warnings,
        suggestions |-> performanceIssues.suggestions \o docScore.suggestions,
        score |-> ClampScore(qualityScore),
        security_score |-> ClampScore(BaseScore - securityIssues.scoreDeduction),
        performance_score |-> ClampScore(BaseScore - performanceIssues.scoreDeduction) ]

enhancedValidation(skillMd, metadata, codeFiles) ==
  LET noFrontmatter == ~Includes(skillMd, "---")
      noName == metadata.name = <<>>
      securityIssues == validateSecurity(skillMd, codeFiles)
      performanceIssues == validatePerformance(skillMd, codeFiles)
      docScore == validateDocumentation(skillMd)
      errors == When(noFrontmatter, "Missing YAML frontmatter")
                \o When(noName, "Missing skill name")
                \o securityIssues.critical
      qualityScore == BaseScore
                      - (IF noFrontmatter THEN FrontmatterDeduction ELSE 0)
                      - (IF noName THEN NameDeduction ELSE 0)
                      + docScore.bonus
  IN  [ isValid |-> IsValidOf(errors),
        errors |-> errors,
        warnings |-> securityIssues.warnings \o performanceIssues.warnings,
        suggestions |-> performanceIssues.suggestions \o docScore.suggestions,
        score |-> ClampScore(qualityScore),
        security_score |-> ClampScore(BaseScore - securityIssues.scoreDeduction),
        performance_score |-> ClampScore(BaseScore - performanceIssues.scoreDeduction) ]

\* ------------------------------------------------------- CLI validators
CliMinScore == 70
CliErrorCost == 10
CliWarningCost == 5

\* AgentForgeCLI.validateGeneratedSkill(content, request)
validateGeneratedSkill(content, request) ==
  LET errors == When(~Includes(content, "---"), "Missing YAML frontmatter")
      suggestions == When(~Includes(content, "## Usage"), "Consider adding usage examples")
      warnings ==
        When(Includes(content, "eval("), "Potential security risk: eval() usage detected")
        \o When("api" \in Range(request.features) /\ ~Includes(content, "error handling"),
                "API integration should include error handling")
  IN  [ isValid |-> IsValidOf(errors),
        errors |-> errors,
        warnings |-> warnings,
        suggestions |-> suggestions,
        score |-> Max(CliMinScore,
                      BaseScore - Len(errors) * CliErrorCost - Len(warnings) * CliWarningCost) ]

FileErrorCost == 15
FileWarningCost == 5

\* AgentForgeCLI.validateSkillFile(content)
validateSkillFile(content) ==
  LET errors ==
        When(~StartsWithDashes(content), "Missing YAML frontmatter")
        \o When(Includes(content, "eval(") \/ Includes(content, "exec("),
                "Potential security risk detected")
      warnings ==
        When(~Includes(content, "# "), "Missing section: Title")
        \o When(~Includes(content, "## Usage"), "Missing section: Usage")
        \o When(~Includes(content, "## Installation"), "Missing section: Installation")
  IN  [ isValid |-> IsValidOf(errors),
        errors |-> errors,
        warnings |-> warnings,
        suggestions |-> <<>>,
        score |-> Max(0, BaseScore - Len(errors) * FileErrorCost
                                   - Len(warnings) * FileWarningCost) ]

\* ------------------------------------------------------------ input sets
DescChars == {"a", " ", "!"}
Descriptions == SeqsUpTo(DescChars, MaxDescLen)
Frameworks == SupportedFrameworks \cup {"crewai"}
FeatureLists == {NoList, <<"api">>}
IntegrationLists == {NoList, <<"jupiter", "pyth">>, <<"solana">>}

\* Further integration lists, drawn with one description only.
MoreIntegrationLists == {<<"metaplex">>, <<"pyth", "pyth">>, <<"jupiter">>}
Complexities == {Undefined, "expert"}

Requests ==
  [ description : Descriptions,
    framework : Frameworks,
    features : FeatureLists,
    integrations : IntegrationLists,
    complexity : Complexities ]
  \cup
  [ description : {<<"a">>},
    framework : {"openclaw"},
    features : {<<"api">>},
    integrations : MoreIntegrationLists,
    complexity : {Undefined} ]

DocLines == { DashLine, <<"name:", "my-skill">>, <<"## Usage">>, <<"eval(x)">> }

\* Texts of 1..n lines; the text of one empty line is the empty string.
TextsUpTo(lines, n) == SeqsUpTo(lines, n) \ {<<>>}

ProviderDocs == {EmptyText} \cup TextsUpTo(DocLines, MaxDocLines)

\* new Date().toISOString()
Dates == {"2026-01-01T00:00:00.000Z", "2026-01-02T00:00:00.000Z"}

\* What the provider call can do: reject, resolve with an empty choices array,
\* or resolve with a message whose content is a text (possibly empty).
ProviderOutcomes ==
  {[kind |-> "error", content |-> EmptyText], [kind |-> "nochoices", content |-> EmptyText]}
  \cup {[kind |-> "content", content |-> d] : d \in ProviderDocs}

\* ----------------------------------------------------------- constructor
\* this.templates after initializeEnhancedTemplates()
initializeEnhancedTemplates == [f \in {"openclaw"} |-> "OpenClaw Skill Template"]

NoRequest ==
  [description |-> <<>>, framework |-> Undefined, features |-> NoList,
   integrations |-> NoList, complexity |-> Undefined]

NoProbe == [fn |-> "none", in |-> <<>>, out |-> <<>>]

\* The useState initial values of AgentForgeWebApp; nothing is scheduled.
InitWebApp ==
  /\ isGenerating = FALSE
  /\ generationStep = 0
  /\ skillDescription = <<>>
  /\ selectedFramework = "openclaw"
  /\ features = <<>>
  /\ generatedSkill = <<>>
  /\ solanaEnabled = FALSE
  /\ showDemo = FALSE
  /\ demoTimers = 0
  /\ runs = <<>>

\* A JavaScript value of a request body: its type and its content, a string
\* as its characters, an array as its elements, undefined with none.
JsUndefined == [t |-> "undefined", v |-> <<>>]

NoBody ==
  [description |-> JsUndefined, framework |-> JsUndefined, features |-> JsUndefined,
   claudeModel |-> JsUndefined]

\* No request has reached the handler of generate-skill.ts.
HandlerIdle ==
  /\ handlerPc = "idle"
  /\ handlerReq = [method |-> "", body |-> NoBody]
  /\ handlerRes = <<>>
  /\ createCalls = <<>>
  /\ completion = <<>>

InitEngine ==
  /\ templates = initializeEnhancedTemplates
  /\ outputDir \in BOOLEAN
  /\ pc = "idle"
  /\ locals = [ request |-> NoRequest, skillMd |-> <<>>, solanaConfig |-> <<>>,
                metadata |-> <<>>, codeFiles |-> <<>>, testFiles |-> <<>>,
                dependencies |-> <<>>, validationResult |-> <<>>, result |-> <<>> ]
  /\ tasks = [ md |-> "none", mdValue |-> <<>>, sol |-> "none", solStarted |-> FALSE,
               solValue |-> <<>>, code |-> "none", test |-> "none" ]
  /\ providerCalls = 0
  /\ prompt = <<>>
  /\ saved = FALSE
  /\ returned = <<>>
  /\ error = ""

Init == InitEngine /\ probe = NoProbe /\ InitWebApp /\ HandlerIdle

\* ---------------------------------------------------------- generateSkill
\* catch (error) { throw new Error(`Skill generation failed: ...`) }
Throw(msg) ==
  /\ pc' = "threw"
  /\ error' = msg

\* A caller invokes generateSkill(req).
CallGenerateSkill(req) ==
  /\ pc = "idle"
  /\ locals' = [locals EXCEPT !.request = req]
  /\ pc' = "validateRequest"
  /\ UNCHANGED << webVars, probe, templates, outputDir, tasks, providerCalls, prompt, saved,
                  returned, error >>

\* this.validateRequest(request)
ValidateRequest ==
  /\ pc = "validateRequest"
  /\ IF validateRequest(locals.request) = "ok"
     THEN pc' = "startSkillMd" /\ error' = error
     ELSE Throw(validateRequest(locals.request))
  /\ UNCHANGED << webVars, probe, templates, outputDir, locals, tasks, providerCalls, prompt,
                  saved, returned >>

\* this.templates.get(framework) is not undefined
HasTemplate(tpls, framework) == framework \in DOMAIN tpls

\* The synchronous part of generateEnhancedSkillMd: template lookup, prompt,
\* and the start of the provider call.
StartSkillMd ==
  /\ pc = "startSkillMd"
  /\ pc' = "startSolanaConfig"
  /\ IF ~HasTemplate(templates, locals.request.framework)
     THEN /\ tasks' = [tasks EXCEPT !.md = "rejected"]
          /\ error' = "Template not found for framework"
          /\ UNCHANGED << prompt, providerCalls >>
     ELSE IF PromptThrows(locals.request)
     THEN /\ tasks' = [tasks EXCEPT !.md = "rejected"]
          /\ error' = "TypeError"
          /\ UNCHANGED << prompt, providerCalls >>
     ELSE /\ prompt' = <<buildEnhancedPrompt(locals.request,
                                             templates[locals.request.framework])>>
          /\ providerCalls' = providerCalls + 1
          /\ tasks' = [tasks EXCEPT !.md = "pending"]
          /\ error' = error
  /\ UNCHANGED << webVars, probe, templates, outputDir, locals, saved, returned >>

\* The second element of the first Promise.all: generateSolanaConfig(request)
\* when an integration asks for it, Promise.resolve(undefined) otherwise.
StartSolanaConfig ==
  /\ pc = "startSolanaConfig"
  /\ pc' = "awaitFirst"
  /\ tasks' = [tasks EXCEPT
                  !.sol = "fulfilled",
                  !.solStarted = WantsSolanaConfig(locals.request),
                  !.solValue = IF WantsSolanaConfig(locals.request)
                               THEN <<generateSolanaConfig(locals.request)>>
                               ELSE <<>>]
  /\ UNCHANGED << webVars, probe, templates, outputDir, locals, providerCalls, prompt, saved,
                  returned, error >>

\* response.choices[0].message.content is falsy: null or the empty string.
EmptyContent(content) == content = EmptyText

\* ProviderResponds with a retry loop around the provider call: a failed call
\* is issued again.
ProviderRespondsRetry(outcome, now) ==
  /\ pc = "awaitFirst"
  /\ tasks.md = "pending"
  /\ IF outcome.kind = "error"
     THEN providerCalls' = providerCalls + 1 /\ UNCHANGED << tasks, error >>
     ELSE /\ tasks' = [tasks EXCEPT !.md = "rejected"]
          /\ error' = "TypeError"
          /\ UNCHANGED providerCalls
  /\ UNCHANGED << webVars, probe, templates, outputDir, pc, locals, prompt, saved, returned >>

\* The provider call settles and generateEnhancedSkillMd runs to its end.
ProviderResponds(outcome, now) ==
  /\ pc = "awaitFirst"
  /\ tasks.md = "pending"
  /\ IF outcome.kind = "error"
     THEN tasks' = [tasks EXCEPT !.md = "rejected"] /\ error' = "ProviderError"
     ELSE IF outcome.kind = "nochoices"
     THEN tasks' = [tasks EXCEPT !.md = "rejected"] /\ error' = "TypeError"
     ELSE IF EmptyContent(outcome.content)
     THEN tasks' = [tasks EXCEPT !.md = "rejected"]
          /\ error' = "OpenAI returned empty response"
     ELSE IF PostProcessThrows(outcome.content, locals.request)
     THEN tasks' = [tasks EXCEPT !.md = "rejected"] /\ error' = "TypeError"
     ELSE /\ tasks' = [tasks EXCEPT
                         !.md = "fulfilled",
                         !.mdValue = <<postProcessSkillMd(outcome.content,
                                                          locals.request, now)>>]
          /\ error' = error
  /\ UNCHANGED << webVars, probe, templates, outputDir, pc, locals, providerCalls, prompt, saved,
                  returned >>

\* Promise.race in place of Promise.all: the first fulfilled promise resumes
\* the caller.
AnyFulfilled(a, b) == a = "fulfilled" \/ b = "fulfilled"

\* Promise.all resumes the caller when every promise is fulfilled.
AllFulfilled(a, b) == a = "fulfilled" /\ b = "fulfilled"

\* Promise.all rejects as soon as one promise is rejected.
AnyRejected(a, b) == a = "rejected" \/ b = "rejected"

\* JoinFirst with Promise.allSettled in place of Promise.all: the caller
\* resumes when both promises have settled, rejected or not.
JoinFirstAllSettled ==
  /\ pc = "awaitFirst"
  /\ tasks.md \in {"fulfilled", "rejected"}
  /\ tasks.sol \in {"fulfilled", "rejected"}
  /\ pc' = "parseMetadata"
  /\ locals' = [locals EXCEPT
                  !.skillMd = tasks.mdValue,
                  !.solanaConfig = tasks.solValue]
  /\ UNCHANGED << webVars, probe, templates, outputDir, tasks, providerCalls, prompt, saved,
                  returned, error >>

\* const [skillMd, solanaConfig] = await Promise.all([...])
JoinFirst ==
  /\ pc = "awaitFirst"
  /\ IF AnyRejected(tasks.md, tasks.sol)
     THEN Throw(error) /\ UNCHANGED locals
     ELSE /\ AllFulfilled(tasks.md, tasks.sol)
          /\ pc' = "parseMetadata"
          /\ locals' = [locals EXCEPT
                          !.skillMd = tasks.mdValue,
                          !.solanaConfig = tasks.solValue]
          /\ error' = error
  /\ UNCHANGED << webVars, probe, templates, outputDir, tasks, providerCalls, prompt, saved, returned >>

\* const metadata = await this.parseEnhancedMetadata(skillMd, request)
ParseMetadata ==
  /\ pc = "parseMetadata"
  /\ IF ParseMetadataRaises(locals.skillMd[1], locals.request)
     THEN Throw("TypeError") /\ UNCHANGED locals
     ELSE /\ locals' = [locals EXCEPT
                          !.metadata = <<parseEnhancedMetadata(locals.skillMd[1],
                                                               locals.request)>>]
          /\ pc' = "startCodeFiles"
          /\ error' = error
  /\ UNCHANGED << webVars, probe, templates, outputDir, tasks, providerCalls, prompt, saved, returned >>

\* generateEnhancedCodeFiles(request, metadata): returns [] without awaiting.
generateEnhancedCodeFiles(req, meta) == <<>>

\* generateEnhancedTestFiles(request, metadata): returns [] without awaiting.
generateEnhancedTestFiles(req, meta) == <<>>

\* extractEnhancedDependencies(skillMd, codeFiles, request): returns [].
extractEnhancedDependencies(md, files, req) == <<>>

StartCodeFiles ==
  /\ pc = "startCodeFiles"
  /\ pc' = "startTestFiles"
  /\ tasks' = [tasks EXCEPT !.code = "fulfilled"]
  /\ UNCHANGED << webVars, probe, templates, outputDir, locals, providerCalls, prompt, saved,
                  returned, error >>

StartTestFiles ==
  /\ pc = "startTestFiles"
  /\ pc' = "awaitSecond"
  /\ tasks' = [tasks EXCEPT !.test = "fulfilled"]
  /\ UNCHANGED << webVars, probe, templates, outputDir, locals, providerCalls, prompt, saved,
                  returned, error >>

\* const [codeFiles, testFiles] = await Promise.all([...])
JoinSecond ==
  /\ pc = "awaitSecond"
  /\ AllFulfilled(tasks.code, tasks.test)
  /\ pc' = "extractDependencies"
  /\ locals' = [locals EXCEPT
                  !.codeFiles = <<generateEnhancedCodeFiles(locals.request,
                                                            locals.metadata[1])>>,
                  !.testFiles = <<generateEnhancedTestFiles(locals.request,
                                                            locals.metadata[1])>>]
  /\ UNCHANGED << webVars, probe, templates, outputDir, tasks, providerCalls, prompt, saved,
                  returned, error >>

ExtractDependencies ==
  /\ pc = "extractDependencies"
  /\ pc' = "validation"
  /\ locals' = [locals EXCEPT
                  !.dependencies = <<extractEnhancedDependencies(locals.skillMd[1],
                                                                 locals.codeFiles[1],
                                                                 locals.request)>>]
  /\ UNCHANGED << webVars, probe, templates, outputDir, tasks, providerCalls, prompt, saved,
                  returned, error >>

\* EnhancedValidation that throws when the skill is not valid.
EnhancedValidationStrict ==
  /\ pc = "validation"
  /\ LET v == enhancedValidation(locals.skillMd[1], locals.metadata[1],
                                  locals.codeFiles[1])
     IN  IF v.isValid
         THEN /\ pc' = "assemble"
              /\ locals' = [locals EXCEPT !.validationResult = <<v>>]
              /\ error' = error
         ELSE Throw("Validation failed") /\ UNCHANGED locals
  /\ UNCHANGED << webVars, probe, templates, outputDir, tasks, providerCalls, prompt, saved,
                  returned >>

\* const validationResult = await this.enhancedValidation({...})
EnhancedValidation ==
  /\ pc = "validation"
  /\ pc' = "assemble"
  /\ locals' = [locals EXCEPT
                  !.validationResult = <<enhancedValidation(locals.skillMd[1],
                                                            locals.metadata[1],
                                                            locals.codeFiles[1])>>]
  /\ UNCHANGED << webVars, probe, templates, outputDir, tasks, providerCalls, prompt, saved,
                  returned, error >>

\* const result: GeneratedSkill = {...}
AssembleResult ==
  /\ pc = "assemble"
  /\ pc' = IF outputDir THEN "save" ELSE "return"
  /\ locals' = [locals EXCEPT
                  !.result = << [ skillMd |-> locals.skillMd,
                                  metadata |-> locals.metadata,
                                  codeFiles |-> locals.codeFiles,
                                  testFiles |-> locals.testFiles,
                                  dependencies |-> locals.dependencies,
                                  validationResult |-> locals.validationResult,
                                  solanaConfig |-> locals.solanaConfig ] >>]
  /\ UNCHANGED << webVars, probe, templates, outputDir, tasks, providerCalls, prompt, saved,
                  returned, error >>

\* const skillDir = path.join(this.config.outputDir!, skill.metadata.name),
\* as path segments: path.join drops an empty segment.
skillDir(skill) ==
  <<"outputDir">> \o (IF skill.metadata[1].name = <<>> THEN <<>>
                      ELSE <<skill.metadata[1].name>>)

\* await this.saveSkillToDirectory(result): the file system calls succeed or
\* one of them rejects.
SaveSkill(ok) ==
  /\ pc = "save"
  /\ IF ok
     THEN pc' = "return" /\ saved' = TRUE /\ error' = error
     ELSE Throw("FileSystemError") /\ saved' = saved
  /\ UNCHANGED << webVars, probe, templates, outputDir, locals, tasks, providerCalls, prompt, returned >>

\* return result
ReturnResult ==
  /\ pc = "return"
  /\ pc' = "returned"
  /\ returned' = locals.result
  /\ UNCHANGED << webVars, probe, templates, outputDir, locals, tasks, providerCalls, prompt,
                  saved, error >>

Next ==
  \/ \E req \in Requests : CallGenerateSkill(req)
  \/ ValidateRequest
  \/ StartSkillMd
  \/ StartSolanaConfig
  \/ \E outcome \in ProviderOutcomes, now \in Dates : ProviderResponds(outcome, now)
  \/ JoinFirst
  \/ ParseMetadata
  \/ StartCodeFiles
  \/ StartTestFiles
  \/ JoinSecond
  \/ ExtractDependencies
  \/ EnhancedValidation
  \/ AssembleResult
  \/ \E ok \in BOOLEAN : SaveSkill(ok)
  \/ ReturnResult

Spec == Init /\ [][Next]_vars

\* ======================================================================
\* Properties of generateSkill (specification Spec)
\* ======================================================================
Called == pc # "idle"

Validated == Called /\ validateRequest(locals.request) = "ok"

InvalidRequestErrors == {"Skill description is required", "Unsupported framework"}

\* Positions after the first Promise.all has resumed the caller.
AfterFirstJoin ==
  {"parseMetadata", "startCodeFiles", "startTestFiles", "awaitSecond",
   "extractDependencies", "validation", "assemble", "save", "return", "returned"}

\* Positions after the second Promise.all has resumed the caller.
AfterSecondJoin ==
  {"extractDependencies", "validation", "assemble", "save", "return", "returned"}

\* C1: a request whose description is empty or whitespace-only makes
\* generateSkill fail with the description error of the request validator, and
\* the provider is never called during that call.
C1_EmptyDescriptionRejected ==
  (Called /\ DescriptionMissing(locals.request)) =>
    /\ providerCalls = 0
    /\ prompt = <<>>
    /\ tasks.md = "none"
    /\ pc \in {"validateRequest", "threw"}
    /\ pc = "threw" => error = "Skill description is required"

\* C1 witness: a whitespace-only description was rejected.
C1_Witness ==
  /\ pc = "threw"
  /\ locals.request.description = <<" ">>
  /\ locals.request.framework = "openclaw"
  /\ error = "Skill description is required"
  /\ providerCalls = 0

\* C2: a request whose framework is not openclaw, langchain or autogen makes
\* generateSkill fail with an error of the request validator, and neither the
\* provider call nor the blockchain-config task is started for it.
C2_UnknownFrameworkRejected ==
  (Called /\ locals.request.framework \notin SupportedFrameworks) =>
    /\ providerCalls = 0
    /\ tasks.md = "none"
    /\ tasks.sol = "none"
    /\ ~tasks.solStarted
    /\ pc \in {"validateRequest", "threw"}
    /\ pc = "threw" => error \in InvalidRequestErrors

\* C2 witness: a request with a described skill, blockchain integrations and an
\* unknown framework was rejected for its framework.
C2_Witness ==
  /\ pc = "threw"
  /\ locals.request.framework = "crewai"
  /\ WantsSolanaConfig(locals.request)
  /\ error = "Unsupported framework"
  /\ ~tasks.solStarted

\* C3: the template registry holds an entry for every supported framework, so
\* a request that passes the request validator never fails because its
\* framework has no template.
C3_TemplateForEverySupportedFramework ==
  Validated =>
    /\ HasTemplate(templates, locals.request.framework)
    /\ error # "Template not found for framework"

\* C4: within one call the provider is called at most once; when that call
\* errors or returns empty content the call fails and no second provider call
\* is made.
C4_ProviderCalledAtMostOnce ==
  /\ providerCalls <= 1
  /\ error \in {"ProviderError", "OpenAI returned empty response"} =>
       /\ providerCalls = 1
       /\ tasks.md = "rejected"
       /\ pc \in {"awaitFirst", "threw"}
       /\ returned = <<>>

\* C4 witness: the provider returned empty content and the call threw after
\* one provider call.
C4_Witness ==
  /\ pc = "threw"
  /\ error = "OpenAI returned empty response"
  /\ providerCalls = 1

Complete(record) ==
  /\ record.skillMd # <<>>
  /\ record.metadata # <<>>
  /\ record.codeFiles # <<>>
  /\ record.testFiles # <<>>
  /\ record.dependencies # <<>>
  /\ record.validationResult # <<>>

\* C5: a call ends either by returning a record whose skillMd, metadata,
\* codeFiles, testFiles, dependencies and validationResult are all set, or by
\* throwing; a call with a failed sub-task goes nowhere but to the throw and
\* returns no record.
C5_CompleteRecordOrThrow ==
  /\ pc = "returned" <=> returned # <<>>
  /\ pc = "returned" => (Complete(returned[1]) /\ error = "")
  /\ error # "" => pc \in {"startSolanaConfig", "awaitFirst", "threw"}
  /\ tasks.md = "rejected" => (error # "" /\ locals.skillMd = <<>>)

\* C5 witness: the document-generation task was rejected by a provider error
\* and the call threw without a record.
C5_Witness ==
  /\ pc = "threw"
  /\ tasks.md = "rejected"
  /\ error = "ProviderError"
  /\ returned = <<>>

\* C5 second case reached: a complete record was returned.
C5_ReturnedReached == pc = "returned" /\ Complete(returned[1])

C7_ExtractionAfterFanIn ==
  /\ (pc \in AfterFirstJoin \/ locals.metadata # <<>>) =>
       /\ tasks.md = "fulfilled"
       /\ tasks.sol = "fulfilled"
       /\ locals.skillMd # <<>>
  /\ (pc \in AfterSecondJoin \/ locals.dependencies # <<>>
        \/ locals.validationResult # <<>>) =>
       /\ tasks.code = "fulfilled"
       /\ tasks.test = "fulfilled"
       /\ locals.metadata # <<>>

\* C7 witness: validation is about to run for a request whose blockchain
\* config task ran.
C7_Witness ==
  /\ pc = "validation"
  /\ tasks.solStarted
  /\ locals.dependencies # <<>>

\* C9: the quality, security and performance scores of every ValidationResult
\* lie in [0,100].
C9_ScoresWithinRange ==
  locals.validationResult # <<>> =>
    /\ locals.validationResult[1].score \in 0..100
    /\ locals.validationResult[1].security_score \in 0..100
    /\ locals.validationResult[1].performance_score \in 0..100

\* C15: the quality_score of the metadata summary is 0 when the metadata is
\* extracted, and in every returned record it holds the quality score of the
\* record's validation result.
C15_QualityScorePopulated ==
  /\ pc = "startCodeFiles" => locals.metadata[1].agentforge.quality_score = 0
  /\ pc = "returned" =>
       returned[1].metadata[1].agentforge.quality_score
         = returned[1].validationResult[1].score

\* The first half of C15: reached, the summary's quality_score is 0 right
\* after the extraction.
C15_StartsAtZeroReached ==
  /\ pc = "startCodeFiles"
  /\ locals.metadata[1].agentforge.quality_score = 0

KnownComplexities == {"simple", "intermediate", "advanced"}

\* C16: for a validated request (with a feature list) whose complexity is
\* absent or not one of simple, intermediate, advanced, the prompt is composed
\* once the template is found, it carries complexity intermediate and the
\* intermediate guideline, and the metadata summary's complexity is
\* intermediate.
C16_ComplexityFallsBack ==
  ( /\ Validated
    /\ locals.request.features # NoList
    /\ locals.request.complexity \notin KnownComplexities ) =>
      /\ ( /\ pc \notin {"validateRequest", "startSkillMd"}
           /\ HasTemplate(templates, locals.request.framework) ) => prompt # <<>>
      /\ prompt # <<>> =>
           /\ prompt[1].complexity = "intermediate"
           /\ prompt[1].guideline
                = "Include error handling, configuration options, moderate complexity"
      /\ locals.metadata # <<>> =>
           locals.metadata[1].agentforge.complexity = "intermediate"

\* C16 for an absent complexity: reached, prompt and summary carry
\* intermediate.
C16_AbsentReached ==
  /\ locals.request.complexity = Undefined
  /\ locals.metadata # <<>>
  /\ locals.metadata[1].agentforge.complexity = "intermediate"
  /\ prompt[1].guideline
       = "Include error handling, configuration options, moderate complexity"

\* The integration tags of the request of the call.
RequestedIntegrations ==
  IF locals.request.integrations = NoList THEN {} ELSE Range(locals.request.integrations)

ProgramNames(config) == {config.programs[i].name : i \in DOMAIN config.programs}

\* C19: a returned record carries a blockchain config exactly when the
\* request's integrations contain jupiter, pyth or metaplex; the config's
\* network is devnet and its program list holds one reference for jupiter
\* when jupiter is requested, one for pyth when pyth is requested, and
\* nothing else.
C19_BlockchainConfigWhenRequested ==
  pc = "returned" =>
    LET config == returned[1].solanaConfig
    IN  /\ config # <<>> <=> RequestedIntegrations \cap {"jupiter", "pyth", "metaplex"} # {}
        /\ config # <<>> =>
             /\ config[1].network = "devnet"
             /\ Len(config[1].programs)
                  = Cardinality(RequestedIntegrations \cap {"jupiter", "pyth"})
             /\ "Jupiter V6" \in ProgramNames(config[1]) <=> "jupiter" \in RequestedIntegrations
             /\ "Pyth Oracle" \in ProgramNames(config[1]) <=> "pyth" \in RequestedIntegrations

\* C19 witness: jupiter and pyth were requested and the returned record's
\* config is on devnet with exactly two program references.
C19_Witness ==
  /\ pc = "returned"
  /\ locals.request.integrations = <<"jupiter", "pyth">>
  /\ returned[1].solanaConfig # <<>>
  /\ returned[1].solanaConfig[1].network = "devnet"
  /\ Len(returned[1].solanaConfig[1].programs) = 2

\* C19 reached for metaplex alone (a config without program references) and
\* for a tag outside the set (no config).
C19_MetaplexReached ==
  /\ pc = "returned"
  /\ locals.request.integrations = <<"metaplex">>
  /\ returned[1].solanaConfig # <<>>
  /\ returned[1].solanaConfig[1].programs = <<>>

C19_NoConfigReached ==
  /\ pc = "returned"
  /\ locals.request.integrations = <<"solana">>
  /\ returned[1].solanaConfig = <<>>

BlockchainTags == {"solana", "jupiter", "pyth", "metaplex"}

\* C25: the prompt sent to the provider carries the blockchain instruction
\* block only when the integrations contain a blockchain tag, and it carries
\* the block whenever the call produces a blockchain config.
C25_PromptBlockWithConfig ==
  prompt # <<>> =>
    /\ prompt[1].solanaRequirements => RequestedIntegrations \cap BlockchainTags # {}
    /\ (tasks.solStarted \/ locals.solanaConfig # <<>>) => prompt[1].solanaRequirements

\* C25 where it holds: jupiter was requested, the prompt carries the block and
\* the config was produced.
C25_JupiterReached ==
  /\ prompt # <<>>
  /\ locals.request.integrations = <<"jupiter">>
  /\ prompt[1].solanaRequirements
  /\ locals.solanaConfig # <<>>

\* The case in which C25 fails: metaplex alone was requested; the config was
\* produced and the prompt carries no block.
C25_MetaplexReached ==
  /\ prompt # <<>>
  /\ locals.request.integrations = <<"metaplex">>
  /\ ~prompt[1].solanaRequirements
  /\ locals.solanaConfig # <<>>

\* C26: the document that reaches metadata extraction and validation starts
\* with ---, the validation result never has the missing-header error, and
\* the quality score never carries the 20-point header deduction (it is at
\* least 100 - 15).
C26_DocumentStartsWithHeaderMarker ==
  /\ locals.skillMd # <<>> => StartsWithDashes(locals.skillMd[1])
  /\ locals.validationResult # <<>> =>
       /\ "Missing YAML frontmatter" \notin Range(locals.validationResult[1].errors)
       /\ locals.validationResult[1].score >= 85

\* C26 witness: the provider's text did not start with ---; the returned
\* document is that text with --- prepended, and it has no header error.
C26_Witness ==
  /\ pc = "returned"
  /\ returned[1].skillMd[1] = <<DashLine, <<"eval(x)">>, <<"## Usage">>, <<"eval(x)">> >>
  /\ "Missing YAML frontmatter" \notin Range(returned[1].validationResult[1].errors)
  /\ returned[1].validationResult[1].errors # <<>>

\* C27: a request that passed validateRequest returns a record whose
\* metadata name is non-empty, without the 'Missing skill name' error, and
\* when it was saved the directory is a subdirectory <outputDir>/<name>.
C27_NameNonEmpty ==
  pc = "returned" =>
    /\ returned[1].metadata[1].name # <<>>
    /\ "Missing skill name" \notin Range(returned[1].validationResult[1].errors)
    /\ saved => Len(skillDir(returned[1])) = 2

\* C27: a description of punctuation only was accepted, and the record was
\* saved into the output directory itself.
C27_SavedIntoOutputDir ==
  /\ pc = "returned"
  /\ saved
  /\ prompt[1].description = <<"!">>
  /\ skillDir(returned[1]) = <<"outputDir">>

\* C27: a record with a name from the description is saved into its own
\* subdirectory.
C27_SubdirectoryReached ==
  /\ pc = "returned"
  /\ saved
  /\ returned[1].metadata[1].name = <<"a">>
  /\ skillDir(returned[1]) = <<"outputDir", <<"a">> >>

\* ======================================================================
\* Metadata extraction as a function (specification SpecMetadata)
\* ======================================================================
MetadataLines ==
  { <<>>, DashLine, <<"----">>, <<"name:", "my-skill">>, <<"name:">>,
    <<"description:", "Does things">>, <<"version:", "2.0.0">> }

MetadataDocs == TextsUpTo(MetadataLines, MaxMetadataLines)

\* Feature lists with an order and a repeated entry.
OrderedFeatureLists == {<<"db", "api", "db">>, <<"api", "db">>}

MetadataRequests ==
  [ description : Descriptions,
    framework : {"openclaw"},
    features : FeatureLists,
    integrations : {NoList},
    complexity : Complexities ]
  \cup [ description : {<<"a">>},
         framework : {"openclaw"},
         features : OrderedFeatureLists,
         integrations : {NoList},
         complexity : {Undefined} ]

InitMetadata ==
  /\ InitEngine
  /\ InitWebApp
  /\ HandlerIdle
  /\ outputDir = FALSE
  /\ probe \in [ fn : {"none"},
                 in : [skillMd : MetadataDocs, request : MetadataRequests],
                 out : {<<>>} ]

\* await this.parseEnhancedMetadata(skillMd, request)
ApplyParseMetadata ==
  /\ probe.fn = "none"
  /\ probe' =
       [probe EXCEPT
          !.fn = "parseEnhancedMetadata",
          !.out = << IF ParseMetadataRaises(probe.in.skillMd, probe.in.request)
                     THEN [raised |-> TRUE, value |-> <<>>]
                     ELSE [raised |-> FALSE,
                           value |-> <<parseEnhancedMetadata(probe.in.skillMd,
                                                             probe.in.request)>>] >>]
  /\ UNCHANGED << engineVars, webVars >>

NextMetadata == ApplyParseMetadata

SpecMetadata == InitMetadata /\ [][NextMetadata]_vars

MetadataFields == {"name", "description", "version", "author", "tags", "agentforge"}

SummaryFields == {"generated", "quality_score", "complexity", "features"}

\* A request that generateSkill hands to the extractor: the validator accepted
\* it and the prompt was composed from it.
ReachesExtractor(req) == validateRequest(req) = "ok" /\ ~PromptThrows(req)

\* C8: for every document text (the empty string, a text without header
\* block, a malformed header) and every validated request that reaches it,
\* parseEnhancedMetadata raises nothing and returns a metadata record with
\* name, description, version, author, tags and the summary block all set.
C8_MetadataExtractionTotal ==
  (probe.fn = "parseEnhancedMetadata" /\ ReachesExtractor(probe.in.request)) =>
    /\ ~probe.out[1].raised
    /\ LET m == probe.out[1].value[1]
       IN  /\ DOMAIN m = MetadataFields
           /\ m.description # <<>>
           /\ m.version # <<>>
           /\ m.author = "AgentForge"
           /\ SubSeq(m.tags, 1, 2) = <<"generated", "agentforge">>
           /\ DOMAIN m.agentforge = SummaryFields
           /\ m.agentforge.generated
           /\ m.agentforge.complexity # Undefined

\* C8 witness: the extractor was applied to the empty string and returned the
\* defaults derived from the request.
C8_Witness ==
  /\ probe.fn = "parseEnhancedMetadata"
  /\ probe.in.skillMd = EmptyText
  /\ probe.in.request.description = <<"a">>
  /\ ~probe.out[1].raised
  /\ probe.out[1].value[1].name = <<"a">>
  /\ probe.out[1].value[1].version = DefaultVersion

\* The header block is found: the first line is ---, and a line that starts
\* with --- follows after at least one line in between.
HeaderFound(doc) ==
  /\ Len(doc) >= 3
  /\ doc[1] = DashLine
  /\ \E j \in 3..Len(doc) : LineStartsWithDashes(doc[j])

\* The lines of the header that carry the label of the field.
LabelLines(header, field) ==
  {i \in DOMAIN header : \E j \in DOMAIN header[i] : field \in ChunkLabels(header[i][j])}

FieldOf(m, field) ==
  CASE field = "name" -> m.name
    [] field = "description" -> m.description
    [] field = "version" -> m.version

DefaultOf(request, field) ==
  CASE field = "name" -> generateSkillName(request.description)
    [] field = "description" -> request.description
    [] field = "version" -> <<"1.0.0">>

HeaderFieldNames == {"name", "description", "version"}

\* C18: without a header block name, description and version are the slug of
\* the request description, the request description and 1.0.0; with a header
\* block a field whose label occurs nowhere in it has that default, and a
\* field whose first label line is `label value` has that value.
C18_DefaultsPerField ==
  (probe.fn = "parseEnhancedMetadata" /\ ReachesExtractor(probe.in.request)) =>
    LET doc == probe.in.skillMd
        m == probe.out[1].value[1]
        header == Frontmatter(doc)
    IN  \A field \in HeaderFieldNames :
          /\ ~HeaderFound(doc) => FieldOf(m, field) = DefaultOf(probe.in.request, field)
          /\ (HeaderFound(doc) /\ LabelLines(header, field) = {}) =>
               FieldOf(m, field) = DefaultOf(probe.in.request, field)
          /\ (HeaderFound(doc) /\ LabelLines(header, field) # {}) =>
               LET first == header[CHOOSE i \in LabelLines(header, field) :
                                     \A k \in LabelLines(header, field) : i <= k]
               IN  (Len(first) = 2 /\ field \in ChunkLabels(first[1])) =>
                     FieldOf(m, field) = <<first[2]>>

\* C18 witness: a header with a name and nothing else; the name is kept,
\* description and version take their defaults.
C18_Witness ==
  /\ probe.fn = "parseEnhancedMetadata"
  /\ probe.in.skillMd = <<DashLine, <<"name:", "my-skill">>, DashLine>>
  /\ probe.in.request.description = <<"a">>
  /\ ReachesExtractor(probe.in.request)
  /\ probe.out[1].value[1].name = <<"my-skill">>
  /\ probe.out[1].value[1].description = <<"a">>
  /\ probe.out[1].value[1].version = <<"1.0.0">>

\* C18 reached for a header in which all three fields are absent.
C18_AllAbsentReached ==
  /\ probe.fn = "parseEnhancedMetadata"
  /\ probe.in.skillMd = <<DashLine, <<>>, DashLine>>
  /\ probe.in.request.description = <<"a">>
  /\ ReachesExtractor(probe.in.request)
  /\ probe.out[1].value[1].name = <<"a">>
  /\ probe.out[1].value[1].version = <<"1.0.0">>

\* C24: a field is extracted from a header line that carries its label: its
\* value is either its default or what follows the label on such a line, and
\* a field whose label lines all have an empty value has its default.
C24_ValueFromOwnLine ==
  (probe.fn = "parseEnhancedMetadata" /\ ReachesExtractor(probe.in.request)
     /\ HeaderFound(probe.in.skillMd)) =>
    LET m == probe.out[1].value[1]
        header == Frontmatter(probe.in.skillMd)
    IN  \A field \in HeaderFieldNames :
          LET ls == LabelLines(header, field)
          IN  /\ (ls # {} /\ \A i \in ls : Len(header[i]) = 1) =>
                   FieldOf(m, field) = DefaultOf(probe.in.request, field)
              /\ \/ FieldOf(m, field) = DefaultOf(probe.in.request, field)
                 \/ \E i \in ls : /\ Len(header[i]) >= 2
                                  /\ FieldOf(m, field) = Tail(header[i])

\* The case of C24: a header whose name label has an empty value and is
\* followed by the description line; the extractor was applied.
C24_EmptyValueReached ==
  /\ probe.fn = "parseEnhancedMetadata"
  /\ probe.in.skillMd
       = <<DashLine, <<"name:">>, <<"description:", "Does things">>, DashLine>>
  /\ ReachesExtractor(probe.in.request)
  /\ probe.out[1].value[1].name = <<"description:", "Does things">>
  /\ probe.out[1].value[1].description = <<"Does things">>

\* C30: on both paths (header found, and the fallback when it is not) the
\* tags are 'generated', 'agentforge' and then the request's features in
\* their order with repeated entries kept, the author is 'AgentForge', and
\* the summary has generated true, quality_score 0 and the request's
\* feature list.
C30_RequestDerivedFields ==
  (probe.fn = "parseEnhancedMetadata" /\ ~probe.out[1].raised) =>
    LET m == probe.out[1].value[1]
        f == probe.in.request.features
    IN  /\ Len(m.tags) = 2 + Len(f)
        /\ m.tags[1] = "generated"
        /\ m.tags[2] = "agentforge"
        /\ \A i \in DOMAIN f : m.tags[2 + i] = f[i]
        /\ m.author = "AgentForge"
        /\ m.agentforge.generated = TRUE
        /\ m.agentforge.quality_score = 0
        /\ m.agentforge.features = f

\* C30 witness: no header is found, the fallback builds the metadata, and a
\* feature named twice is in the tags twice.
C30_Witness ==
  /\ probe.fn = "parseEnhancedMetadata"
  /\ ~HeaderFound(probe.in.skillMd)
  /\ probe.in.request.features = <<"db", "api", "db">>
  /\ ~probe.out[1].raised
  /\ probe.out[1].value[1].tags = <<"generated", "agentforge", "db", "api", "db">>
  /\ probe.out[1].value[1].agentforge.features = <<"db", "api", "db">>

\* C30 reached on the path with a header.
C30_HeaderPathReached ==
  /\ probe.fn = "parseEnhancedMetadata"
  /\ probe.in.skillMd = <<DashLine, <<"name:", "my-skill">>, DashLine>>
  /\ probe.in.request.features = <<"api", "db">>
  /\ probe.out[1].value[1].name = <<"my-skill">>
  /\ probe.out[1].value[1].tags = <<"generated", "agentforge", "api", "db">>

\* In generateSkill the extractor is only reached by such requests.
ExtractorInputsReachExtractor ==
  pc = "parseMetadata" => ReachesExtractor(locals.request)

\* ======================================================================
\* The validators as functions (specification SpecValidation)
\* ======================================================================
ValidationLines ==
  { <<>>, DashLine, <<"# Title">>, <<"## Usage">>, <<"## Installation">>,
    <<"## Troubleshooting">>, <<"## Example">>, <<"## FAQ">>, <<"## Notes">>,
    <<"<fence>">>, <<"eval(x)">>, <<"eval (x)">>,
    <<"exec(cmd)">>, <<"el.innerHTML = s">>, <<"process.env.KEY">>, <<"try {">>,
    <<"} catch (e) {">>, <<"setInterval(f, 1)">>, <<"clearInterval(t)">>,
    <<"setTimeout(f, 1); setTimeout(g, 2)">>, <<"setTimeout(f, 1)">>,
    <<"with error handling">> }

ValidationDocs == TextsUpTo(ValidationLines, MaxValidationLines)

CodeFileOf(line) ==
  [filename |-> "index.ts", content |-> <<line>>, type |-> "typescript", purpose |-> "main"]

CodeFileLists ==
  { <<>>, <<CodeFileOf(<<"exec(cmd)">>)>>, <<CodeFileOf(<<"try {">>)>>,
    <<CodeFileOf(<<"setTimeout(f, 1); setTimeout(g, 2)">>),
      CodeFileOf(<<"clearInterval(t)">>)>> }

InitValidation ==
  /\ InitEngine
  /\ InitWebApp
  /\ HandlerIdle
  /\ outputDir = FALSE
  /\ probe \in [ fn : {"none"},
                 in : [skillMd : ValidationDocs,
                       name : {<<>>, <<"my-skill">>},
                       codeFiles : CodeFileLists,
                       features : {<<>>, <<"api">>}],
                 out : {<<>>} ]

\* await this.enhancedValidation(skill)
ApplyEnhancedValidation ==
  /\ probe.fn = "none"
  /\ probe' =
       [probe EXCEPT
          !.fn = "enhancedValidation",
          !.out = <<enhancedValidation(probe.in.skillMd, [name |-> probe.in.name],
                                       probe.in.codeFiles)>>]
  /\ UNCHANGED << engineVars, webVars >>

\* cli.validateGeneratedSkill(content, request)
ApplyValidateGeneratedSkill ==
  /\ probe.fn = "none"
  /\ probe' =
       [probe EXCEPT
          !.fn = "validateGeneratedSkill",
          !.out = <<validateGeneratedSkill(probe.in.skillMd,
                                           [features |-> probe.in.features])>>]
  /\ UNCHANGED << engineVars, webVars >>

\* cli.validateSkillFile(content)
ApplyValidateSkillFile ==
  /\ probe.fn = "none"
  /\ probe' =
       [probe EXCEPT
          !.fn = "validateSkillFile",
          !.out = <<validateSkillFile(probe.in.skillMd)>>]
  /\ UNCHANGED << engineVars, webVars >>

NextValidation ==
  \/ ApplyEnhancedValidation
  \/ ApplyValidateGeneratedSkill
  \/ ApplyValidateSkillFile

SpecValidation == InitValidation /\ [][NextValidation]_vars

\* C10: in every ValidationResult (engine validation, CLI
\* validateGeneratedSkill, CLI validateSkillFile) isValid is true exactly when
\* the errors list is empty.
C10_IsValidIffNoErrors ==
  probe.out # <<>> => (probe.out[1].isValid <=> probe.out[1].errors = <<>>)

\* C10 witness: the engine validation produced a result with errors that is
\* not valid.
C10_Witness ==
  /\ probe.fn = "enhancedValidation"
  /\ probe.out[1].errors # <<>>
  /\ ~probe.out[1].isValid

\* C10 reached for the CLI validators as well.
C10_CliReached ==
  /\ probe.fn \in {"validateGeneratedSkill", "validateSkillFile"}
  /\ probe.out[1].errors # <<>>
  /\ ~probe.out[1].isValid

\* The combined text the security pass of the applied validation scanned.
ScannedText == AllContent(probe.in.skillMd, probe.in.codeFiles)

Matches(needle) == Includes(ScannedText, needle)

NoHandlingWord == ~Matches("try") /\ ~Matches("catch")

\* C12: the security score is 100 minus 30 for an eval match, 25 for an exec
\* match, 15 for an innerHTML match, 5 for an environment-variable match and
\* 10 when neither try nor catch occurs; a text with an eval call and no
\* try/catch has the eval finding among its errors, the missing-error-handling
\* finding among its warnings, is not valid, and scores 60 when nothing else
\* matches.
C12_SecurityScoreFormula ==
  probe.fn = "enhancedValidation" =>
    /\ probe.out[1].security_score =
         100 - (IF Matches("re:eval(") THEN 30 ELSE 0)
             - (IF Matches("re:exec(") THEN 25 ELSE 0)
             - (IF Matches("re:innerHTML=") THEN 15 ELSE 0)
             - (IF Matches("re:process.env") THEN 5 ELSE 0)
             - (IF NoHandlingWord THEN 10 ELSE 0)
    /\ (Matches("re:eval(") /\ NoHandlingWord) =>
         /\ "eval() usage detected - security risk" \in Range(probe.out[1].errors)
         /\ "No error handling detected" \in Range(probe.out[1].warnings)
         /\ ~probe.out[1].isValid
         /\ (~Matches("re:exec(") /\ ~Matches("re:innerHTML=")
               /\ ~Matches("re:process.env")) => probe.out[1].security_score = 60

\* C12 witness: a document with a header line and one eval call, no code
\* files, no try/catch: security score 60, not valid.
C12_Witness ==
  /\ probe.fn = "enhancedValidation"
  /\ probe.in.skillMd = <<DashLine, <<"eval(x)">> >>
  /\ probe.in.codeFiles = <<>>
  /\ probe.out[1].security_score = 60
  /\ ~probe.out[1].isValid
  /\ "No error handling detected" \in Range(probe.out[1].warnings)

\* C12 reached where only one of try and catch occurs: no deduction for
\* missing error handling.
C12_OneHandlingWordReached ==
  /\ probe.fn = "enhancedValidation"
  /\ Matches("try")
  /\ ~Matches("catch")
  /\ probe.out[1].security_score = 100

\* C13: eval, exec and innerHTML matches enter the errors list, an
\* environment-variable match enters the warnings list and not the errors
\* list; a document with header and name whose only risk-pattern match is an
\* environment-variable reference is valid.
C13_EnvReferenceIsWarning ==
  probe.fn = "enhancedValidation" =>
    /\ Matches("re:eval(") =>
         "eval() usage detected - security risk" \in Range(probe.out[1].errors)
    /\ Matches("re:exec(") =>
         "exec() usage detected - potential command injection"
           \in Range(probe.out[1].errors)
    /\ Matches("re:innerHTML=") =>
         "innerHTML usage - potential XSS risk" \in Range(probe.out[1].errors)
    /\ Matches("re:process.env") =>
         /\ "Environment variable usage without validation"
              \in Range(probe.out[1].warnings)
         /\ "Environment variable usage without validation"
              \notin Range(probe.out[1].errors)
    /\ ( /\ Matches("re:process.env")
         /\ ~Matches("re:eval(") /\ ~Matches("re:exec(") /\ ~Matches("re:innerHTML=")
         /\ Includes(probe.in.skillMd, "---")
         /\ probe.in.name # <<>> ) => probe.out[1].isValid

\* C13 for the three blocking patterns: reached.
C13_BlockingReached ==
  /\ probe.fn = "enhancedValidation"
  /\ Matches("re:innerHTML=")
  /\ "innerHTML usage - potential XSS risk" \in Range(probe.out[1].errors)

\* String.includes on the document of the applied validation.
DocHas(needle) == Includes(probe.in.skillMd, needle)

C21_SuggestionReached ==
  /\ probe.fn = "enhancedValidation"
  /\ probe.in.skillMd = << DashLine, <<"<fence>">> >>
  /\ probe.in.name # <<>>
  /\ probe.out[1].score = 103
  /\ "Consider adding section headers for better organization"
       \in Range(probe.out[1].suggestions)

TopLevelErrors == <<"Missing YAML frontmatter", "Missing skill name">>

SecurityErrors ==
  << "eval() usage detected - security risk",
     "exec() usage detected - potential command injection",
     "innerHTML usage - potential XSS risk",
     "Environment variable usage without validation" >>

\* The list holds each of its elements once, all of them from the pass order,
\* in the order of the pass order.
InPassOrder(list, order) ==
  /\ Range(list) \subseteq Range(order)
  /\ \A i, j \in DOMAIN list :
       i < j => \E k, l \in DOMAIN order : k < l /\ order[k] = list[i] /\ order[l] = list[j]

\* C22: errors are the top-level errors (missing header, then missing name)
\* followed by the security findings; warnings are the security warning
\* followed by the performance warning; suggestions are the performance
\* suggestion followed by the documentation suggestion.
C22_FindingsInPassOrder ==
  probe.fn = "enhancedValidation" =>
    /\ InPassOrder(probe.out[1].errors, TopLevelErrors \o SecurityErrors)
    /\ InPassOrder(probe.out[1].warnings,
                   << "No error handling detected",
                      "setInterval without clearInterval - potential memory leak" >>)
    /\ InPassOrder(probe.out[1].suggestions,
                   << "Consider using async/await instead of multiple setTimeout calls",
                      "Consider adding section headers for better organization" >>)

\* C22 witness: a result with a warning of each pass, the security one first,
\* and with a top-level error before a security error.
C22_Witness ==
  /\ probe.fn = "enhancedValidation"
  /\ probe.out[1].warnings
       = << "No error handling detected",
            "setInterval without clearInterval - potential memory leak" >>
  /\ Len(probe.out[1].errors) = 2
  /\ probe.out[1].errors[1] = "Missing skill name"
  /\ probe.out[1].errors[2] \in Range(SecurityErrors)

\* C22 reached for the suggestions of both passes.
C22_SuggestionsReached ==
  /\ probe.fn = "enhancedValidation"
  /\ probe.out[1].suggestions
       = << "Consider using async/await instead of multiple setTimeout calls",
            "Consider adding section headers for better organization" >>

\* C23: the performance score is 90 when the combined text contains
\* setInterval and no clearInterval, and 100 otherwise; the setTimeout
\* suggestion is emitted exactly when setTimeout occurs at least 5 times.
C23_PerformanceScore ==
  probe.fn = "enhancedValidation" =>
    /\ probe.out[1].performance_score
         = (IF Matches("setInterval") /\ ~Matches("clearInterval") THEN 90 ELSE 100)
    /\ "Consider using async/await instead of multiple setTimeout calls"
         \in Range(probe.out[1].suggestions)
           <=> Occurrences(ScannedText, "setTimeout") >= 5

\* C23 witness: exactly five setTimeout occurrences and a setInterval that is
\* never cleared: the suggestion is emitted and the score is 90.
C23_Witness ==
  /\ probe.fn = "enhancedValidation"
  /\ Occurrences(ScannedText, "setTimeout") = 5
  /\ "Consider using async/await instead of multiple setTimeout calls"
       \in Range(probe.out[1].suggestions)

\* C23 reached with four occurrences (no suggestion), and with the deduction.
C23_FourReached ==
  /\ probe.fn = "enhancedValidation"
  /\ Occurrences(ScannedText, "setTimeout") = 4
  /\ "Consider using async/await instead of multiple setTimeout calls"
       \notin Range(probe.out[1].suggestions)

C23_DeductionReached ==
  /\ probe.fn = "enhancedValidation"
  /\ Matches("setInterval")
  /\ ~Matches("clearInterval")
  /\ Matches("setTimeout")
  /\ probe.out[1].performance_score = 90

\* ======================================================================
\* The security score before and after one more risk-pattern occurrence
\* (specification SpecSecurity)
\* ======================================================================
MaxSecurityLines == 2

SecurityLines ==
  { <<>>, <<"# Title">>, <<"eval(x)">>, <<"exec(cmd)">>, <<"el.innerHTML = s">>,
    <<"process.env.KEY">>, <<"try {">>, <<"} catch (e) {">> }

SecurityDocs == TextsUpTo(SecurityLines, MaxSecurityLines)

SecurityCodeFileLists ==
  { <<>>, <<CodeFileOf(<<"try {">>)>>, <<CodeFileOf(<<"exec(cmd)">>)>> }

\* One text per way of writing each pattern of dangerousPatterns; the name
\* after process.env. is any \w+ word.
RiskOccurrences ==
  { "eval(x)", "eval (x)", "exec(cmd)", "el.innerHTML = s", "process.env.KEY",
    "process.env.retry" }

InitSecurity ==
  /\ InitEngine
  /\ InitWebApp
  /\ HandlerIdle
  /\ outputDir = FALSE
  /\ probe \in [ fn : {"none"},
                 in : [skillMd : SecurityDocs,
                       codeFiles : SecurityCodeFileLists,
                       occurrence : RiskOccurrences,
                       place : {"document", "codeFile"}],
                 out : {<<>>} ]

\* The input with the occurrence added: as a further line of the document, or
\* as a further code file.
WithOccurrence(input) ==
  IF input.place = "document"
  THEN [skillMd |-> input.skillMd \o << <<input.occurrence>> >>,
        codeFiles |-> input.codeFiles]
  ELSE [skillMd |-> input.skillMd,
        codeFiles |-> input.codeFiles \o <<CodeFileOf(<<input.occurrence>>)>>]

\* (await this.enhancedValidation(skill)).security_score
SecurityScoreOf(input) ==
  enhancedValidation(input.skillMd, [name |-> <<"my-skill">>],
                     input.codeFiles).security_score

\* The validation of the text as drawn.
ApplySecurityScore ==
  /\ probe.fn = "none"
  /\ probe' = [probe EXCEPT !.fn = "scored", !.out = <<SecurityScoreOf(probe.in)>>]
  /\ UNCHANGED << engineVars, webVars >>

\* The validation of the same text with the occurrence added.
ApplySecurityScoreWithOccurrence ==
  /\ probe.fn = "scored"
  /\ probe' = [probe EXCEPT
                 !.fn = "rescored",
                 !.out = probe.out \o <<SecurityScoreOf(WithOccurrence(probe.in))>>]
  /\ UNCHANGED << engineVars, webVars >>

NextSecurity ==
  \/ ApplySecurityScore
  \/ ApplySecurityScoreWithOccurrence

SpecSecurity == InitSecurity /\ [][NextSecurity]_vars

\* C11: the security score of a text with one more occurrence of a risk
\* pattern (eval call, exec call, innerHTML assignment, process.env.<name>)
\* added is at most the security score of the text without it.
C11_SecurityScoreMonotonic ==
  probe.fn = "rescored" => probe.out[2] <= probe.out[1]

\* C11 for the occurrences that contain neither try nor catch: reached and
\* strictly lower.
C11_LoweredReached ==
  /\ probe.fn = "rescored"
  /\ probe.in.occurrence = "eval(x)"
  /\ probe.out[2] = probe.out[1] - EvalDeduction

\* ======================================================================
\* Dependency extraction as a function (specification SpecDependencies)
\* ======================================================================
MaxDependencyLines == 2

\* Module paths of the import statements in a chunk: the capture of
\* /import.*from ['"]([^'"]+)['"]/g.
ChunkImports(c) ==
  CASE c = "import a from 'pkg-a'" -> {"pkg-a"}
    [] c = "import { b } from \"pkg-b\"" -> {"pkg-b"}
    [] OTHER -> {}

\* The module paths imported anywhere in a text.
ImportsOf(text) ==
  UNION {UNION {ChunkImports(text[i][j]) : j \in DOMAIN text[i]} : i \in DOMAIN text}

DependencyLines ==
  { <<>>, <<"## Usage">>, <<"import a from 'pkg-a'">>,
    <<"import { b } from \"pkg-b\"">> }

DependencyDocs == TextsUpTo(DependencyLines, MaxDependencyLines)

DependencyCodeFileLists ==
  { <<>>,
    <<CodeFileOf(<<"import a from 'pkg-a'">>)>>,
    <<CodeFileOf(<<"import a from 'pkg-a'">>), CodeFileOf(<<"import a from 'pkg-a'">>)>>,
    <<CodeFileOf(<<"import { b } from \"pkg-b\"">>),
      CodeFileOf(<<"import a from 'pkg-a'">>)>> }

DependencyRequest ==
  [description |-> <<"a">>, framework |-> "openclaw", features |-> <<"api">>,
   integrations |-> NoList, complexity |-> Undefined]

InitDependencies ==
  /\ InitEngine
  /\ InitWebApp
  /\ HandlerIdle
  /\ outputDir = FALSE
  /\ probe \in [ fn : {"none"},
                 in : [skillMd : DependencyDocs, codeFiles : DependencyCodeFileLists],
                 out : {<<>>} ]

\* await this.extractEnhancedDependencies(skillMd, codeFiles, request)
ApplyExtractDependencies ==
  /\ probe.fn = "none"
  /\ probe' =
       [probe EXCEPT
          !.fn = "extractEnhancedDependencies",
          !.out = << [deps |-> extractEnhancedDependencies(probe.in.skillMd,
                                                           probe.in.codeFiles,
                                                           DependencyRequest)] >>]
  /\ UNCHANGED << engineVars, webVars >>

NextDependencies == ApplyExtractDependencies

SpecDependencies == InitDependencies /\ [][NextDependencies]_vars

\* The module paths imported in the document or in a code file of the input.
ImportedPaths ==
  ImportsOf(probe.in.skillMd)
    \cup UNION {ImportsOf(probe.in.codeFiles[i].content) : i \in DOMAIN probe.in.codeFiles}

\* C14: the dependency list holds every module path imported in the document
\* or in a code file exactly once, and nothing else.
C14_DependenciesDistinctOnce ==
  probe.fn = "extractEnhancedDependencies" =>
    LET deps == probe.out[1].deps
    IN  /\ \A path \in ImportedPaths :
             Cardinality({i \in DOMAIN deps : deps[i] = path}) = 1
        /\ Range(deps) \subseteq ImportedPaths

\* The case of C14: the same path imported three times, in the document and
\* in two code files; the extractor was applied.
C14_ThreeImportsReached ==
  /\ probe.fn = "extractEnhancedDependencies"
  /\ probe.in.skillMd = << <<"import a from 'pkg-a'">> >>
  /\ Len(probe.in.codeFiles) = 2
  /\ ImportedPaths = {"pkg-a"}
  /\ probe.out[1].deps = <<>>

\* ======================================================================
\* The slug function (specification SpecSlug)
\* ======================================================================
MaxSlugAffix == 1

SlugChars == {"a", "W", "7", " ", "\t", "!", "-"}

RECURSIVE Repeat(_, _)
Repeat(c, n) == IF n = 0 THEN <<>> ELSE <<c>> \o Repeat(c, n - 1)

\* Lengths of the middle part: none, and around the 50 of substring(0, 50).
PadLengths == {0} \cup (SlugMaxLen - 2)..(SlugMaxLen + 1)

WeatherDescription ==
  << "w", "e", "a", "t", "h", "e", "r", " ",
     "f", "o", "r", "e", "c", "a", "s", "t", "i", "n", "g", " ",
     "s", "k", "i", "l", "l" >>

\* Descriptions: a short prefix, a run of one character, a short suffix.
SlugDescriptions ==
  { pre \o Repeat(c, k) \o suf :
      pre \in SeqsUpTo(SlugChars, MaxSlugAffix), suf \in SeqsUpTo(SlugChars, MaxSlugAffix),
      c \in {"a", " "}, k \in PadLengths }
  \cup {WeatherDescription}

InitSlug ==
  /\ InitEngine
  /\ InitWebApp
  /\ HandlerIdle
  /\ outputDir = FALSE
  /\ probe \in [fn : {"none"}, in : [description : SlugDescriptions], out : {<<>>}]

\* this.generateSkillName(description) of the engine
ApplyGenerateSkillName ==
  /\ probe.fn = "none"
  /\ probe' = [probe EXCEPT
                 !.fn = "generateSkillName",
                 !.out = <<generateSkillName(probe.in.description)>>]
  /\ UNCHANGED << engineVars, webVars >>

\* this.generateSkillName(description) of the CLI
ApplyCliGenerateSkillName ==
  /\ probe.fn = "none"
  /\ probe' = [probe EXCEPT
                 !.fn = "cliGenerateSkillName",
                 !.out = <<cliGenerateSkillName(probe.in.description)>>]
  /\ UNCHANGED << engineVars, webVars >>

NextSlug ==
  \/ ApplyGenerateSkillName
  \/ ApplyCliGenerateSkillName

SpecSlug == InitSlug /\ [][NextSlug]_vars

AlnumOf(s) == SelectSeq(s, LAMBDA c : c \in LowerLetters \cup Digits)

IsPrefix(a, b) == Len(a) <= Len(b) /\ SubSeq(b, 1, Len(a)) = a

WeatherSlug ==
  << "w", "e", "a", "t", "h", "e", "r", "-",
     "f", "o", "r", "e", "c", "a", "s", "t", "i", "n", "g", "-",
     "s", "k", "i", "l", "l" >>

\* C17: the slug of a description consists of lowercase letters, digits and
\* hyphens only, is at most 50 characters long, has one hyphen for each
\* whitespace run (never two hyphens in a row), keeps the letters and digits
\* of the lowercased description in order, losing some only to the cut at 50
\* characters; 'weather forecasting skill' gives 'weather-forecasting-skill'.
C17_SlugShape ==
  probe.out # <<>> =>
    LET slug == probe.out[1]
        alnum == AlnumOf(ToLowerCase(probe.in.description))
    IN  /\ Range(slug) \subseteq LowerLetters \cup Digits \cup {"-"}
        /\ Len(slug) <= 50
        /\ \A i \in 1..(Len(slug) - 1) : ~(slug[i] = "-" /\ slug[i + 1] = "-")
        /\ IsPrefix(AlnumOf(slug), alnum)
        /\ Len(slug) < 50 => AlnumOf(slug) = alnum
        /\ (\E i \in DOMAIN slug : slug[i] = "-")
             <=> (\E i \in DOMAIN probe.in.description :
                    probe.in.description[i] \in Whitespace
                      /\ Len(HyphenateWhitespace(StripNonSlug(ToLowerCase(
                           SubSeq(probe.in.description, 1, i))))) <= 50)
        /\ probe.in.description = WeatherDescription => slug = WeatherSlug

\* C17 witness: a description longer than 50 characters with an uppercase
\* letter and punctuation was cut to a slug of exactly 50 characters.
C17_Witness ==
  /\ probe.fn = "generateSkillName"
  /\ Len(probe.in.description) > 50
  /\ probe.in.description[1] = "W"
  /\ probe.in.description[Len(probe.in.description)] = "!"
  /\ Len(probe.out[1]) = 50
  /\ probe.out[1][1] = "w"

\* C17 reached for the example and for the CLI's copy of the function.
C17_ExampleReached ==
  /\ probe.fn = "cliGenerateSkillName"
  /\ probe.in.description = WeatherDescription
  /\ probe.out[1] = WeatherSlug


\* ======================================================================
\* The web interface (specification SpecWebApp)
\* ======================================================================
MaxDemoTimers == 1
MaxRuns == 2

\* generationSteps.length
GenerationStepCount == 8

DemoDescription ==
  <<"Create a Solana trading bot that autonomously manages a portfolio using Jupiter DEX">>

DemoFeatures == <<"API Integration", "Data Processing", "Authentication">>

\* The ids of `frameworks`.
FrameworkIds == {"openclaw", "langchain", "autogen"}

\* The entries of featureOptions a user toggles here.
FeatureChoices == {"Web Scraping"}

\* What a user types into the description field.
TypedDescriptions == {<<>>, <<" ">>, <<"x">>}

\* The mock result of startGeneration, by its name; the fields copied from
\* the form are not kept.
MockSkill == [name |-> "solana-portfolio-manager"]

\* startGeneration up to its first await: setIsGenerating(true),
\* setGenerationStep(0), then the loop with i = 0 sets the step and waits.
startGeneration ==
  /\ isGenerating' = TRUE
  /\ generationStep' = 0
  /\ runs' = Append(runs, 0)

\* <textarea onChange disabled={isGenerating}>
TypeDescription(text) ==
  /\ ~isGenerating
  /\ skillDescription' = text
  /\ UNCHANGED << isGenerating, generationStep, selectedFramework, features,
                  generatedSkill, solanaEnabled, showDemo, demoTimers, runs >>
  /\ UNCHANGED << engineVars, probe, handlerVars >>

\* The framework buttons, disabled={isGenerating}.
SelectFramework(id) ==
  /\ ~isGenerating
  /\ selectedFramework' = id
  /\ UNCHANGED << isGenerating, generationStep, skillDescription, features,
                  generatedSkill, solanaEnabled, showDemo, demoTimers, runs >>
  /\ UNCHANGED << engineVars, probe, handlerVars >>

\* The feature checkboxes, disabled={isGenerating}: checking appends the
\* feature, unchecking filters it out.
ToggleFeature(feature) ==
  /\ ~isGenerating
  /\ features' = IF feature \in Range(features)
                 THEN SelectSeq(features, LAMBDA f : f # feature)
                 ELSE Append(features, feature)
  /\ UNCHANGED << isGenerating, generationStep, skillDescription, selectedFramework,
                  generatedSkill, solanaEnabled, showDemo, demoTimers, runs >>
  /\ UNCHANGED << engineVars, probe, handlerVars >>

\* The Solana checkbox, disabled={isGenerating}.
ToggleSolana ==
  /\ ~isGenerating
  /\ solanaEnabled' = ~solanaEnabled
  /\ UNCHANGED << isGenerating, generationStep, skillDescription, selectedFramework,
                  features, generatedSkill, showDemo, demoTimers, runs >>
  /\ UNCHANGED << engineVars, probe, handlerVars >>

\* The Live Demo button (onClick={startDemo}, never disabled): fills the
\* form and schedules startGeneration.
startDemo ==
  /\ demoTimers < MaxDemoTimers
  /\ showDemo' = TRUE
  /\ skillDescription' = DemoDescription
  /\ selectedFramework' = "openclaw"
  /\ features' = DemoFeatures
  /\ solanaEnabled' = TRUE
  /\ demoTimers' = demoTimers + 1
  /\ UNCHANGED << isGenerating, generationStep, generatedSkill, runs >>
  /\ UNCHANGED << engineVars, probe, handlerVars >>

\* The callback of startDemo's setTimeout: startGeneration().
DemoTimerFires ==
  /\ demoTimers > 0
  /\ Len(runs) < MaxRuns
  /\ demoTimers' = demoTimers - 1
  /\ startGeneration
  /\ UNCHANGED << skillDescription, selectedFramework, features, generatedSkill,
                  solanaEnabled, showDemo >>
  /\ UNCHANGED << engineVars, probe, handlerVars >>

\* The Generate button: onClick={startGeneration},
\* disabled={isGenerating || !skillDescription.trim()}.
ClickGenerate ==
  /\ ~(isGenerating \/ Trim(skillDescription) = <<>>)
  /\ Len(runs) < MaxRuns
  /\ startGeneration
  /\ UNCHANGED << skillDescription, selectedFramework, features, generatedSkill,
                  solanaEnabled, showDemo, demoTimers >>
  /\ UNCHANGED << engineVars, probe, handlerVars >>

RemoveAt(s, k) == SubSeq(s, 1, k - 1) \o SubSeq(s, k + 1, Len(s))

\* The step timer of run k fires: the loop goes on with i + 1, or the run
\* ends with setGeneratedSkill(...) and setIsGenerating(false).
StepTimerFires(k) ==
  /\ k \in DOMAIN runs
  /\ IF runs[k] + 1 < GenerationStepCount
     THEN /\ generationStep' = runs[k] + 1
          /\ runs' = [runs EXCEPT ![k] = runs[k] + 1]
          /\ UNCHANGED << isGenerating, generatedSkill >>
     ELSE /\ generatedSkill' = <<MockSkill>>
          /\ isGenerating' = FALSE
          /\ runs' = RemoveAt(runs, k)
          /\ UNCHANGED generationStep
  /\ UNCHANGED << skillDescription, selectedFramework, features, solanaEnabled,
                  showDemo, demoTimers >>
  /\ UNCHANGED << engineVars, probe, handlerVars >>

InitWebAppSpec == InitEngine /\ outputDir = FALSE /\ probe = NoProbe /\ InitWebApp /\ HandlerIdle

NextWebApp ==
  \/ \E text \in TypedDescriptions : TypeDescription(text)
  \/ \E id \in FrameworkIds : SelectFramework(id)
  \/ \E feature \in FeatureChoices : ToggleFeature(feature)
  \/ ToggleSolana
  \/ startDemo
  \/ DemoTimerFires
  \/ ClickGenerate
  \/ \E k \in 1..MaxRuns : StepTimerFires(k)

SpecWebApp == InitWebAppSpec /\ [][NextWebApp]_vars

\* C28: at most one generation run is in progress; isGenerating is true
\* exactly while that run is in progress, and generationStep is the loop
\* index of that run, so the step advances 0, 1, ..., 7 in order and
\* isGenerating is false again only when the run has ended.
C28_AtMostOneRun ==
  /\ Len(runs) <= 1
  /\ isGenerating <=> runs # <<>>
  /\ runs # <<>> => generationStep = runs[1]

\* C28: the demo timer started a second run while isGenerating was true, and
\* the step went back to 0 under the first run.
C28_SecondRunReached ==
  /\ isGenerating
  /\ Len(runs) = 2
  /\ runs[1] = 3
  /\ runs[2] = 0
  /\ generationStep = 0

\* C28: the first run ended and cleared isGenerating while the second run
\* is still in progress.
C28_IdleWhileRunning ==
  /\ ~isGenerating
  /\ generatedSkill # <<>>
  /\ Len(runs) = 1

\* C28: a single run, started by the Generate button, in progress.
C28_SingleRunReached ==
  /\ isGenerating
  /\ runs = <<5>>
  /\ generationStep = 5
  /\ demoTimers = 0
  /\ ~showDemo


\* ======================================================================
\* The HTTP handler of generate-skill.ts (specification SpecHandler)
\* ======================================================================
JsString(chars) == [t |-> "string", v |-> chars]

JsNumber(digits) == [t |-> "number", v |-> <<digits>>]

JsArray(elements) == [t |-> "array", v |-> elements]

\* !x is false
Truthy(x) ==
  ~ \/ x.t = "undefined"
    \/ x.t = "string" /\ x.v = <<>>
    \/ x.t = "number" /\ x.v = <<"0">>

Methods == {"GET", "POST"}

\* The bodies a client posts; the handler does not look at the types.
HandlerBodies ==
  [ description : {JsUndefined, JsString(<<>>), JsString(<<"A", " ", "b">>),
                   JsString(<<"a", " ", "b", " ", "c", " ", "d">>), JsNumber("5")},
    framework : {JsUndefined, JsString(<<"openclaw">>)},
    features : {JsUndefined, JsArray(<<"w", "x", "y", "z">>), JsString(<<"api">>)},
    claudeModel : {JsUndefined, JsString(<<"claude-3-opus">>)} ]

HandlerRequests == [method : Methods, body : HandlerBodies]

DefaultModel == <<"claude-3-haiku-20240307">>

\* claudeModel || 'claude-3-haiku-20240307'
ModelOf(body) == IF Truthy(body.claudeModel) THEN body.claudeModel.v ELSE DefaultModel

\* `features?.join(', ')` in the prompt raises a TypeError when features is
\* defined and has no join method.
HandlerPromptThrows(body) == body.features.t \notin {"undefined", "array"}

\* What anthropic.messages.create settles with: a rejection, or a message
\* with its content blocks.
ProviderCompletions ==
  {[ok |-> FALSE, content |-> <<>>]}
  \cup [ok : {TRUE},
        content : {<<>>,
                   <<[type |-> "text", text |-> "{}"]>>,
                   <<[type |-> "text", text |-> "# Skill"]>>,
                   <<[type |-> "tool_use", text |-> ""]>>}]

\* JSON.parse(responseText): <<value>>, or <<>> for a SyntaxError.
JSONparse(text) == IF text = "{}" THEN <<[json |-> "{}"]>> ELSE <<>>

NameWords == 3
TagFeatures == 3

RECURSIVE FirstWordsJoined(_, _)
\* .split(' ').slice(0, n).join('-')
FirstWordsJoined(s, n) ==
  IF s = <<>> THEN <<>>
  ELSE IF Head(s) = " "
       THEN IF n = 1 THEN <<>> ELSE <<"-">> \o FirstWordsJoined(Tail(s), n - 1)
       ELSE <<Head(s)>> \o FirstWordsJoined(Tail(s), n)

\* `description.split(' ')` in the fallback raises a TypeError when
\* description is not a string.
FallbackRecordThrows(body) == body.description.t # "string"

\* The structured response built when the provider text is not JSON; the
\* timestamp and the token count of generationStats are not kept.
FallbackRecord(body, responseText) ==
  [ skillMd |-> responseText,
    metadata |->
      [ name |-> ToLowerCase(FirstWordsJoined(body.description.v, NameWords)),
        description |-> body.description.v,
        version |-> "1.0.0",
        author |-> "AgentForge",
        tags |-> body.framework.v \o Substring0(body.features.v, TagFeatures) ],
    codeFiles |-> <<[filename |-> "index.ts", content |-> responseText,
                     type |-> "typescript"]>>,
    dependencies |-> <<"@anthropic-ai/sdk">>,
    generationStats |-> [model |-> ModelOf(body)] ]

\* res.status(code).json(payload)
Respond(code, payload) ==
  /\ handlerRes' = Append(handlerRes, [status |-> code, body |-> payload])
  /\ handlerPc' = "done"

\* The outer catch block; the details field of the payload is not kept.
RespondFailure == Respond(500, [error |-> "Failed to generate skill"])

\* handler(req, res) up to `await anthropic.messages.create(...)`.
HandleRequest(r) ==
  /\ handlerPc = "idle"
  /\ handlerReq' = r
  /\ IF r.method # "POST"
     THEN Respond(405, [error |-> "Method not allowed"]) /\ UNCHANGED createCalls
     ELSE IF ~Truthy(r.body.description) \/ ~Truthy(r.body.framework)
     THEN Respond(400, [error |-> "Missing required fields"]) /\ UNCHANGED createCalls
     ELSE IF HandlerPromptThrows(r.body)
     THEN RespondFailure /\ UNCHANGED createCalls
     ELSE /\ createCalls' = Append(createCalls, [model |-> ModelOf(r.body)])
          /\ handlerPc' = "awaiting"
          /\ UNCHANGED handlerRes
  /\ UNCHANGED completion
  /\ UNCHANGED << engineVars, probe, uiVars >>

\* The provider call settles and the handler runs to its end.
CreateSettles(outcome) ==
  /\ handlerPc = "awaiting"
  /\ completion' = <<outcome>>
  /\ IF ~outcome.ok \/ outcome.content = <<>>
     THEN RespondFailure
     ELSE LET responseText == IF outcome.content[1].type = "text"
                              THEN outcome.content[1].text ELSE ""
              parsed == JSONparse(responseText)
          IN  IF parsed # <<>> THEN Respond(200, parsed[1])
              ELSE IF FallbackRecordThrows(handlerReq.body) THEN RespondFailure
              ELSE Respond(200, FallbackRecord(handlerReq.body, responseText))
  /\ UNCHANGED << handlerReq, createCalls >>
  /\ UNCHANGED << engineVars, probe, uiVars >>

InitHandler == InitEngine /\ outputDir = FALSE /\ probe = NoProbe /\ InitWebApp /\ HandlerIdle

NextHandler ==
  \/ \E r \in HandlerRequests : HandleRequest(r)
  \/ \E outcome \in ProviderCompletions : CreateSettles(outcome)

SpecHandler == InitHandler /\ [][NextHandler]_vars

FieldsMissing == ~Truthy(handlerReq.body.description) \/ ~Truthy(handlerReq.body.framework)

\* C29: the handler sends one response per request: 405 for a method other
\* than POST and 400 when description or framework is missing, both without
\* a provider call; otherwise the provider is called once and the answer is
\* 500 when that call failed and 200 when it did not.
C29_OneResponsePerRequest ==
  /\ Len(handlerRes) <= 1
  /\ handlerPc = "awaiting" => Len(createCalls) = 1 /\ handlerRes = <<>>
  /\ handlerPc = "done" =>
       /\ Len(handlerRes) = 1
       /\ IF handlerReq.method # "POST"
          THEN handlerRes[1].status = 405 /\ createCalls = <<>>
          ELSE IF FieldsMissing
          THEN handlerRes[1].status = 400 /\ createCalls = <<>>
          ELSE /\ Len(createCalls) = 1
               /\ completion # <<>>
               /\ handlerRes[1].status = IF completion[1].ok THEN 200 ELSE 500

\* C29: a POST with both fields present was answered 500 without any
\* provider call.
C29_FailureWithoutProviderCall ==
  /\ handlerPc = "done"
  /\ handlerReq.method = "POST"
  /\ ~FieldsMissing
  /\ handlerRes[1].status = 500
  /\ createCalls = <<>>

\* C29: the provider call succeeded and the answer is 500.
C29_FailureAfterProviderSuccess ==
  /\ handlerPc = "done"
  /\ completion # <<>>
  /\ completion[1].ok
  /\ completion[1].content # <<>>
  /\ handlerRes[1].status = 500

\* C29: the provider text was not JSON and the answer is 200 with the
\* fallback record.
C29_FallbackReached ==
  /\ handlerPc = "done"
  /\ handlerRes[1].status = 200
  /\ handlerRes[1].body =
       FallbackRecord(handlerReq.body, "# Skill")
  /\ handlerRes[1].body.metadata.name = <<"a", "-", "b", "-", "c">>
  /\ handlerRes[1].body.metadata.tags = <<"openclaw", "w", "x", "y">>

====
